---- MODULE Spec2Model ----
(***************************************************************************)
(* Report synthesis engine of the UNHCR Rights-Mapper server.              *)
(*                                                                         *)
(* The module models the POST /api/report/generate handler (the category   *)
(* orchestrator), the in-memory case/report store it writes to, and the    *)
(* retrieval and precedent-lookup helpers the handler calls.  Every await  *)
(* of the handler is a suspension point: the response of an external call  *)
(* (embedding, generation, precedent lookup) arrives as a separate step,   *)
(* and the responses of different categories interleave freely.            *)
(***************************************************************************)
EXTENDS Integers, Sequences, FiniteSets, TLC

(***************************************************************************)
(* Bounds of the model.                                                    *)
(***************************************************************************)
\* reports the store may hold before no further generation request is started
MaxReports == 2

\* ids storage.createCase hands out (randomUUID), in the order it does
CaseIdSeq == <<"case1", "case2">>

CaseIds == {CaseIdSeq[k] : k \in 1..Len(CaseIdSeq)}

\* concurrently running activations of the generate handler
Slots == {"h1", "h2"}

\* a request body without caseId
NoCaseId == "none"

(***************************************************************************)
(* Program constants.                                                      *)
(***************************************************************************)
\* topK passed to searchSimilarDocuments by the report handler
ReportTopK == 5

\* minSimilarity passed by the report handler, 0.65, as a fraction of 100
ReportMinSimilarityPct == 65

\* maxResults passed to searchWebForSimilarCases
MaxSimilarCases == 5

RightsCategories ==
    {"asylum", "documentation", "education", "family_life", "freedom_movement",
     "health", "housing", "liberty_security", "nationality", "social_protection",
     "work"}

(***************************************************************************)
(* Inputs.                                                                 *)
(***************************************************************************)
\* extractedEntities of a case; an optional number is a sequence of length
\* at most one, an absent array is the empty array
NoFacts ==
    [medicalNeeds |-> <<>>, educationNeeds |-> <<>>, familySize |-> <<>>,
     hostCountry |-> <<>>]

DiabetesOnly ==
    [medicalNeeds |-> <<"diabetes">>, educationNeeds |-> <<>>, familySize |-> <<1>>,
     hostCountry |-> <<"Switzerland">>]

SchoolAndFamily ==
    [medicalNeeds |-> <<>>, educationNeeds |-> <<"school">>, familySize |-> <<3>>,
     hostCountry |-> <<"Switzerland">>]

EntityInputs == {NoFacts, DiabetesOnly, SchoolAndFamily}

\* the embedding table initService can end up with: no documents, or a corpus
CorpusTable ==
    << [chunkId |-> "chunk_0", filename |-> "a.pdf", country |-> "switzerland",
        pageNumber |-> 1, embedding |-> <<1, 1>>],
       [chunkId |-> "chunk_1", filename |-> "a.pdf", country |-> "switzerland",
        pageNumber |-> 2, embedding |-> <<0, 1>>],
       [chunkId |-> "chunk_2", filename |-> "b.pdf", country |-> "unknown",
        pageNumber |-> 1, embedding |-> <<2, 0>>] >>

EmbeddingTables == { <<>>, CorpusTable }

\* what openai.embeddings.create answers for a query: an error, or a vector
\* (the second one has another length than the stored vectors)
EmbeddingError == "embedding_error"
EmbeddingOutcomes == { <<"error">>, <<"vector", <<1, 0>>>>, <<"vector", <<1, 0, 0>>>> }

\* what the generation call answers: an error, no content, content that is
\* not JSON, or a JSON object
GenerationOutcomes == {"error", "empty", "unparsable", "json"}

\* what the precedent lookup's generation call answers: an error, no content,
\* a JSON payload that is no array, or an array of cases (TRUE: has a url)
LookupOutcomes ==
    { <<"error">>, <<"empty">>, <<"nonarray">>,
      <<"array", <<TRUE, TRUE, FALSE, TRUE, TRUE, TRUE>>>> }

(***************************************************************************)
(* Retrieval: vectorSearch.ts.                                             *)
(***************************************************************************)
RECURSIVE DotFrom(_, _, _)
DotFrom(a, b, i) ==
    IF i > Len(a) THEN 0 ELSE a[i] * b[i] + DotFrom(a, b, i + 1)

\* dotProduct of cosineSimilarity
Dot(a, b) == DotFrom(a, b, 1)

\* normA, normB of cosineSimilarity (the squared norm, before Math.sqrt)
NormSq(a) == Dot(a, a)

\* cosineSimilarity throws when the lengths differ
SameLength(a, b) == Len(a) = Len(b)

\* cosineSimilarity(q, e) >= pct / 100, decided exactly on the rationals:
\* dot / (sqrt(nq) * sqrt(ne)) >= pct/100.  A zero vector gives 0/0 = NaN,
\* and NaN >= x is false.
SimilarityAtLeast(q, e, pct) ==
    /\ NormSq(q) > 0
    /\ NormSq(e) > 0
    /\ \/ /\ pct <= 0
          /\ \/ Dot(q, e) >= 0
             \/ Dot(q, e) * Dot(q, e) * 10000 <= pct * pct * NormSq(q) * NormSq(e)
       \/ /\ pct > 0
          /\ Dot(q, e) >= 0
          /\ Dot(q, e) * Dot(q, e) * 10000 >= pct * pct * NormSq(q) * NormSq(e)

\* cosineSimilarity(q, e1) > cosineSimilarity(q, e2) for nonzero vectors:
\* the factor sqrt(NormSq(q)) is common, so d1/sqrt(n1) > d2/sqrt(n2)
SimilarityGreater(q, e1, e2) ==
    LET d1 == Dot(q, e1)
        d2 == Dot(q, e2)
        n1 == NormSq(e1)
        n2 == NormSq(e2)
    IN  IF d1 >= 0 /\ d2 < 0 THEN TRUE
        ELSE IF d1 < 0 /\ d2 >= 0 THEN FALSE
        ELSE IF d1 >= 0 THEN d1 * d1 * n2 > d2 * d2 * n1
        ELSE d1 * d1 * n2 < d2 * d2 * n1

\* results.filter(r => r.similarity >= minSimilarity), order kept
RECURSIVE FilterBySimilarity(_, _, _)
FilterBySimilarity(q, embs, pct) ==
    IF embs = <<>> THEN <<>>
    ELSE (IF SimilarityAtLeast(q, Head(embs).embedding, pct)
            THEN <<Head(embs)>> ELSE <<>>)
         \o FilterBySimilarity(q, Tail(embs), pct)

\* one record inserted into a list sorted by similarity descending, behind
\* every record of greater or equal similarity (Array.prototype.sort is stable)
RECURSIVE InsertBySimilarity(_, _, _)
InsertBySimilarity(q, r, sorted) ==
    IF sorted = <<>> THEN <<r>>
    ELSE IF SimilarityGreater(q, r.embedding, Head(sorted).embedding)
         THEN <<r>> \o sorted
         ELSE <<Head(sorted)>> \o InsertBySimilarity(q, r, Tail(sorted))

\* .sort((a, b) => b.similarity - a.similarity)
RECURSIVE SortBySimilarity(_, _)
SortBySimilarity(q, rs) ==
    IF rs = <<>> THEN <<>>
    ELSE InsertBySimilarity(q, rs[Len(rs)], SortBySimilarity(q, SubSeq(rs, 1, Len(rs) - 1)))

\* .slice(0, n)
Slice(seq, n) == SubSeq(seq, 1, IF Len(seq) < n THEN Len(seq) ELSE n)

\* searchSimilarDocuments throws: some stored vector has another length
\* than the query vector
SearchThrows(q, embs) == \E i \in 1..Len(embs) : ~SameLength(q, embs[i].embedding)

\* a retriever that cuts the table to topK records before it ranks them
searchSimilarDocuments_SliceFirst(q, embs, topK, pct) ==
    SortBySimilarity(q, FilterBySimilarity(q, Slice(embs, topK), pct))

\* searchSimilarDocuments, given the query vector: filter, sort, slice
searchSimilarDocuments(q, embs, topK, pct) ==
    Slice(SortBySimilarity(q, FilterBySimilarity(q, embs, pct)), topK)

\* the chunk ids of the results, in rank order, as they go into the prompt
ChunkIdsOf(rs) == [i \in 1..Len(rs) |-> rs[i].chunkId]

(***************************************************************************)
(* Precedent lookup: aiService.ts, searchWebForSimilarCases.  The whole    *)
(* body is inside try/catch, so every failure becomes the empty list.      *)
(***************************************************************************)
\* indexes (from 0, as in the ids web-similar-<type>-<idx>) of the items of
\* cases.slice(0, maxResults) whose link is not "#"
RECURSIVE FormatCases(_, _)
FormatCases(items, idx) ==
    IF items = <<>> THEN <<>>
    ELSE (IF Head(items) THEN <<idx>> ELSE <<>>) \o FormatCases(Tail(items), idx + 1)

\* variant: a payload that is no array is taken for a list of one case
searchWebForSimilarCases_NonArrayAsCase(outcome, maxResults) ==
    IF outcome[1] = "array"
    THEN FormatCases(Slice(outcome[2], maxResults), 0)
    ELSE IF outcome[1] = "nonarray" THEN <<0>>
    ELSE <<>>

searchWebForSimilarCases(outcome, maxResults) ==
    IF outcome[1] = "array"
    THEN FormatCases(Slice(outcome[2], maxResults), 0)
    ELSE <<>>

(***************************************************************************)
(* State.                                                                  *)
(***************************************************************************)
VARIABLES
    cases,          \* MemStorage.cases: case id -> <<>> (no entry) or <<case>>
    reports,        \* MemStorage.reports, in insertion order of the Map
    embeddings,     \* initService: the in-memory embedding table
    isInitialized,  \* initService: initialization finished
    req,            \* the activations of the generate handler, by slot
    corpus,         \* the documents under data/: index of the snapshot on disk
    cacheFile,      \* data/embeddings-cache.json
    stream,         \* the write stream of saveEmbeddingsCache, <<>> when none
    run,            \* the activation of initializeDocumentSystem
    pdfChunks,      \* initService: the chunks processPDFs returned
    sent,           \* the batches requested from the embedding capability so far
    saved,          \* the records handed to the latest saveEmbeddingsCache call
    restarts,       \* how often the server process was restarted
    elapsed,        \* time units since the generate request in flight arrived
    chat,           \* the activations of the chat handler, by slot
    doc,            \* the latest request to GET /api/documents/:filename
    chunker,        \* the call of chunkText in progress
    search,         \* the latest call of the retriever and the context assembler
    inits,          \* overlapping activations of initializeDocumentSystem
    pdf             \* the call of processPDFs in progress

\* the state of the report engine: store, embedding table, generate handler
engineVars == <<cases, reports, req>>

tableVars == <<embeddings, isInitialized>>

\* the state of the embedding cache store and of initialization
cacheVars == <<corpus, cacheFile, stream, run, pdfChunks, sent, saved, restarts>>

\* the state of single calls of the document-processing functions
callVars == <<chunker, search, inits, pdf>>

vars == <<cases, reports, embeddings, isInitialized, req, corpus, cacheFile, stream,
          run, pdfChunks, sent, saved, restarts, elapsed, chat, doc, chunker, search,
          inits, pdf>>

IdleRequest ==
    [pc |-> "idle", caseId |-> NoCaseId, entities |-> <<>>, docs |-> <<>>,
     tasks |-> <<>>, status |-> 0, error |-> "", report |-> 0]

\* no cache file on disk
NoFile == [exists |-> FALSE, content |-> <<>>]

\* initializeDocumentSystem has not been called in this process
IdleRun == [pc |-> "idle", snapshot |-> 0, i |-> 0, list |-> <<>>,
            outcomes |-> <<>>, source |-> "none"]

\* concurrently running activations of the chat handler
ChatSlots == {"c1", "c2"}

IdleChat == [pc |-> "idle", connected |-> FALSE, source |-> <<>>, consumed |-> 0,
             written |-> <<>>, received |-> <<>>, status |-> 0, ended |-> FALSE]

NoDocumentRequest == [filename |-> <<>>, status |-> 0, served |-> <<>>]

\* the cache store before the server ever ran: first snapshot, no cache file
InitCacheStore ==
    /\ corpus = 1
    /\ cacheFile = NoFile
    /\ stream = <<>>
    /\ run = IdleRun
    /\ pdfChunks = <<>>
    /\ sent = <<>>
    /\ saved = <<>>
    /\ restarts = 0

\* no request to the generate, chat and document handlers yet
InitHandlers ==
    /\ elapsed = 0
    /\ chat = [c \in ChatSlots |-> IdleChat]
    /\ doc = NoDocumentRequest

\* chunkText has not been called
IdleChunker ==
    [pc |-> "idle", text |-> <<>>, size |-> 0, overlap |-> 0, start |-> 0,
     chunks |-> <<>>]

\* the retriever has not been called
NoSearch ==
    [pc |-> "idle", fn |-> "none", query |-> <<>>, records |-> <<>>, topK |-> 0,
     pct |-> 0, results |-> <<>>, context |-> <<>>]

\* calls of initializeDocumentSystem that can be in progress together
Activations == {"i1", "i2"}

\* processPDFs has not been called
IdleExtraction ==
    [pc |-> "idle", root |-> "none", pdfFiles |-> <<>>, done |-> 0,
     chunkIdCounter |-> 0, allChunks |-> <<>>]

InitCalls ==
    /\ chunker = IdleChunker
    /\ search = NoSearch
    /\ inits = [a \in Activations |-> IdleRun]
    /\ pdf = IdleExtraction

InitEngine ==
    /\ cases = [c \in CaseIds |-> <<>>]
    /\ reports = <<>>
    /\ embeddings = <<>>
    /\ isInitialized = FALSE
    /\ req = [s \in Slots |-> IdleRequest]

Init == InitEngine /\ InitCacheStore /\ InitHandlers /\ InitCalls

(***************************************************************************)
(* Store: storage.ts.                                                      *)
(***************************************************************************)
\* storage.getCase
getCase(id) == IF id \in CaseIds THEN cases[id] ELSE <<>>

\* storage.getReportByCaseId: Array.from(reports.values()).find(...), the
\* first report in insertion order that carries the case id, or <<>>
RECURSIVE FindReport(_, _)
FindReport(rs, caseId) ==
    IF rs = <<>> THEN <<>>
    ELSE IF Head(rs).caseId = caseId THEN <<Head(rs)>>
    ELSE FindReport(Tail(rs), caseId)

getReportByCaseId(caseId) == FindReport(reports, caseId)

\* storage.createReport: a fresh id, the report appended to the Map
createReport(reportData) ==
    Append(reports, [id |-> Len(reports) + 1,
                     caseId |-> reportData.caseId,
                     rightsAnalysis |-> reportData.rightsAnalysis])

\* storage.updateCase with { status }: no entry, no change
updateCase(id, status) ==
    IF cases[id] = <<>> THEN cases
    ELSE [cases EXCEPT ![id] = <<[cases[id][1] EXCEPT !.status = status]>>]

(***************************************************************************)
(* The category orchestrator: POST /api/report/generate.                   *)
(***************************************************************************)
\* variant: family_life for every case that names a family size
rightsCategories_AnyFamilySize(e) ==
    (IF Len(e.medicalNeeds) > 0 THEN <<"health">> ELSE <<>>)
    \o (IF Len(e.educationNeeds) > 0 THEN <<"education">> ELSE <<>>)
    \o (IF Len(e.familySize) > 0 /\ e.familySize[1] # 0
          THEN <<"family_life">> ELSE <<>>)
    \o <<"housing">>

\* variant: housing only as the fallback of the three conditional categories
rightsCategories_NoBaseline(e) ==
    (IF Len(e.medicalNeeds) > 0 THEN <<"health">> ELSE <<>>)
    \o (IF Len(e.educationNeeds) > 0 THEN <<"education">> ELSE <<>>)
    \o (IF Len(e.familySize) > 0 /\ e.familySize[1] # 0 /\ e.familySize[1] > 1
          THEN <<"family_life">> ELSE <<>>)

\* the applicability predicates, in the order the handler pushes categories
rightsCategories(e) ==
    (IF Len(e.medicalNeeds) > 0 THEN <<"health">> ELSE <<>>)
    \o (IF Len(e.educationNeeds) > 0 THEN <<"education">> ELSE <<>>)
    \o (IF Len(e.familySize) > 0 /\ e.familySize[1] # 0 /\ e.familySize[1] > 1
          THEN <<"family_life">> ELSE <<>>)
    \o <<"housing">>

\* variant: the precedent lookup is issued when the task starts
StartTask_ParallelLookup(type, hasDocuments) ==
    [type |-> type,
     pc |-> IF hasDocuments THEN "retrieving" ELSE "generating",
     calls |-> IF hasDocuments THEN <<"lookup", "embedding">>
                               ELSE <<"lookup", "generation">>,
     context |-> <<>>,
     value |-> <<>>,
     error |-> ""]

\* a category task right after rightsCategories.map started it: the first
\* await is the query embedding when documents are loaded, else generation.
\* calls lists the external calls the task has issued so far, pc names the
\* one it awaits.
StartTask(type, hasDocuments) ==
    [type |-> type,
     pc |-> IF hasDocuments THEN "retrieving" ELSE "generating",
     calls |-> IF hasDocuments THEN <<"embedding">> ELSE <<"generation">>,
     context |-> <<>>,
     value |-> <<>>,
     error |-> ""]

Settled(t) == t.pc \in {"fulfilled", "rejected"}

\* a slot a new activation can take: no handler and no task running in it
Free(s) ==
    /\ req[s].pc \in {"idle", "responded"}
    /\ \A i \in 1..Len(req[s].tasks) : Settled(req[s].tasks[i])

\* requests that will still persist a report
Pending == {s \in Slots : req[s].pc = "awaiting"}

\* the handler up to its first await
generateReport(s, caseId) ==
    /\ Free(s)
    /\ IF caseId = NoCaseId
       THEN req' = [req EXCEPT ![s] = [IdleRequest EXCEPT
                        !.pc = "responded", !.status = 400]]
       ELSE IF getCase(caseId) = <<>>
       THEN req' = [req EXCEPT ![s] = [IdleRequest EXCEPT
                        !.pc = "responded", !.caseId = caseId, !.status = 404]]
       ELSE /\ Len(reports) + Cardinality(Pending) < MaxReports
            /\ LET e == getCase(caseId)[1].extractedEntities
                    cats == rightsCategories(e)
               IN req' = [req EXCEPT ![s] = [IdleRequest EXCEPT
                        !.pc = "awaiting", !.caseId = caseId, !.entities = <<e>>,
                        !.docs = embeddings,
                        !.tasks = [i \in 1..Len(cats) |->
                                      StartTask(cats[i], Len(embeddings) > 0)]]]
    /\ UNCHANGED <<cases, reports, embeddings, isInitialized>>

\* a category task rejects: Promise.all rejects with the first rejection, the
\* handler's catch answers 500; later rejections are ignored
Reject(r, i, message) ==
    [r EXCEPT !.tasks[i].pc = "rejected",
              !.tasks[i].error = message,
              !.pc = IF r.pc = "awaiting" THEN "responded" ELSE @,
              !.status = IF r.pc = "awaiting" THEN 500 ELSE @,
              !.error = IF r.pc = "awaiting" THEN message ELSE @]

\* variant: the evidence is put into the prompt in the table's order, unranked
RetrievalReturns_Unranked(s, i, outcome) ==
    /\ i \in 1..Len(req[s].tasks)
    /\ req[s].tasks[i].pc = "retrieving"
    /\ LET r == req[s]
       IN req' = [req EXCEPT ![s] =
          IF outcome[1] = "error"
          THEN Reject(r, i, EmbeddingError)
          ELSE IF SearchThrows(outcome[2], r.docs)
          THEN Reject(r, i, "Vectors must have the same length")
          ELSE [r EXCEPT !.tasks[i].pc = "generating",
                         !.tasks[i].calls = Append(@, "generation"),
                         !.tasks[i].context =
                             ChunkIdsOf(Slice(FilterBySimilarity(outcome[2], r.docs,
                                 ReportMinSimilarityPct), ReportTopK))]]
    /\ UNCHANGED <<cases, reports, embeddings, isInitialized>>

\* searchSimilarDocuments resumes with the answer of the embedding call
RetrievalReturns(s, i, outcome) ==
    /\ i \in 1..Len(req[s].tasks)
    /\ req[s].tasks[i].pc = "retrieving"
    /\ LET r == req[s]
       IN req' = [req EXCEPT ![s] =
          IF outcome[1] = "error"
          THEN Reject(r, i, EmbeddingError)
          ELSE IF SearchThrows(outcome[2], r.docs)
          THEN Reject(r, i, "Vectors must have the same length")
          ELSE [r EXCEPT !.tasks[i].pc = "generating",
                         !.tasks[i].calls = Append(@, "generation"),
                         !.tasks[i].context =
                             ChunkIdsOf(searchSimilarDocuments(outcome[2], r.docs,
                                 ReportTopK, ReportMinSimilarityPct))]]
    /\ UNCHANGED <<cases, reports, embeddings, isInitialized>>

\* the task resumes with the answer of the generation call
GenerationReturns(s, i, outcome) ==
    /\ i \in 1..Len(req[s].tasks)
    /\ req[s].tasks[i].pc = "generating"
    /\ LET r == req[s]
       IN req' = [req EXCEPT ![s] =
          CASE outcome = "error" -> Reject(r, i, "generation_error")
            [] outcome = "empty" -> [r EXCEPT !.tasks[i].pc = "fulfilled"]
            [] outcome = "unparsable" -> Reject(r, i, "SyntaxError")
            [] outcome = "json" ->
                 [r EXCEPT !.tasks[i].pc = "lookup",
                           !.tasks[i].calls = Append(@, "lookup")]]
    /\ UNCHANGED <<cases, reports, embeddings, isInitialized>>

\* the task resumes with the result of searchWebForSimilarCases and returns
\* the category's analysis
LookupReturns(s, i, outcome) ==
    /\ i \in 1..Len(req[s].tasks)
    /\ req[s].tasks[i].pc = "lookup"
    /\ req' = [req EXCEPT ![s].tasks[i].pc = "fulfilled",
                          ![s].tasks[i].value =
                              <<[rightType |-> req[s].tasks[i].type,
                                 similarCases |->
                                     searchWebForSimilarCases(outcome, MaxSimilarCases)]>>]
    /\ UNCHANGED <<cases, reports, embeddings, isInitialized>>

\* rightsAnalysis.filter(a => a !== null), in category order
RECURSIVE validAnalysis(_)
validAnalysis(tasks) ==
    IF tasks = <<>> THEN <<>>
    ELSE Head(tasks).value \o validAnalysis(Tail(tasks))

\* variant: the handler resumes with the first value (Promise.race)
AllFulfilled_Any(r) == \E i \in 1..Len(r.tasks) : r.tasks[i].pc = "fulfilled"

\* Promise.all has every task's value
AllFulfilled(r) == \A i \in 1..Len(r.tasks) : r.tasks[i].pc = "fulfilled"

\* variant: the handler waits for every task to settle (Promise.allSettled)
\* and persists what succeeded, also after it answered 500
PersistReport_AfterRejection(s) ==
    /\ req[s].pc \in {"awaiting", "responded"}
    /\ req[s].report = 0
    /\ req[s].tasks # <<>>
    /\ \A i \in 1..Len(req[s].tasks) : Settled(req[s].tasks[i])
    /\ Len(reports) < MaxReports
    /\ reports' = createReport([caseId |-> req[s].caseId,
                                rightsAnalysis |-> validAnalysis(req[s].tasks)])
    /\ req' = [req EXCEPT ![s].pc = IF @ = "awaiting" THEN "created" ELSE @,
                          ![s].report = Len(reports) + 1]
    /\ UNCHANGED <<cases, embeddings, isInitialized>>

\* the handler resumes after Promise.all: filter, storage.createReport
PersistReport(s) ==
    /\ req[s].pc = "awaiting"
    /\ AllFulfilled(req[s])
    /\ reports' = createReport([caseId |-> req[s].caseId,
                                rightsAnalysis |-> validAnalysis(req[s].tasks)])
    /\ req' = [req EXCEPT ![s].pc = "created", ![s].report = Len(reports) + 1]
    /\ UNCHANGED <<cases, embeddings, isInitialized>>

\* variant: the case is marked before the report is persisted
CompleteCase_BeforeReport(s) ==
    /\ req[s].pc \in {"awaiting", "created"}
    /\ cases' = updateCase(req[s].caseId, "completed")
    /\ req' = IF req[s].pc = "created"
              THEN [req EXCEPT ![s].pc = "responded", ![s].status = 200]
              ELSE req
    /\ UNCHANGED <<reports, embeddings, isInitialized>>

\* the handler resumes after createReport: storage.updateCase, res.json
CompleteCase(s) ==
    /\ req[s].pc = "created"
    /\ cases' = updateCase(req[s].caseId, "completed")
    /\ req' = [req EXCEPT ![s].pc = "responded", ![s].status = 200]
    /\ UNCHANGED <<reports, embeddings, isInitialized>>

(***************************************************************************)
(* The other writers of the state.                                         *)
(***************************************************************************)
\* POST /api/intake/analyze: storage.createCase with status "draft"
analyzeIntake(k, e) ==
    /\ cases[CaseIdSeq[k]] = <<>>
    /\ \A j \in 1..(k - 1) : cases[CaseIdSeq[j]] # <<>>
    /\ cases' = [cases EXCEPT ![CaseIdSeq[k]] =
                    <<[status |-> "draft", extractedEntities |-> e]>>]
    /\ UNCHANGED <<reports, embeddings, isInitialized, req>>

\* initializeDocumentSystem, started by registerRoutes: the tables are set
\* once, then the flag
initializeDocumentSystem(table) ==
    /\ ~isInitialized
    /\ embeddings' = table
    /\ isInitialized' = TRUE
    /\ UNCHANGED <<cases, reports, req>>

\* One activation of the generate handler at a time, every case shape: the
\* category pipelines of the request interleave freely.
Next ==
    \/ \E e \in EntityInputs : analyzeIntake(1, e)
          /\ UNCHANGED <<cacheVars, elapsed, chat, doc, callVars>>
    \/ \E table \in EmbeddingTables : initializeDocumentSystem(table)
          /\ UNCHANGED <<cacheVars, elapsed, chat, doc, callVars>>
    \/ \E caseId \in CaseIds \cup {NoCaseId} : generateReport("h1", caseId)
          /\ UNCHANGED <<cacheVars, elapsed, chat, doc, callVars>>
    \/ \E i \in 1..3, o \in EmbeddingOutcomes : RetrievalReturns("h1", i, o)
          /\ UNCHANGED <<cacheVars, elapsed, chat, doc, callVars>>
    \/ \E i \in 1..3, o \in GenerationOutcomes : GenerationReturns("h1", i, o)
          /\ UNCHANGED <<cacheVars, elapsed, chat, doc, callVars>>
    \/ \E i \in 1..3, o \in LookupOutcomes : LookupReturns("h1", i, o)
          /\ UNCHANGED <<cacheVars, elapsed, chat, doc, callVars>>
    \/ PersistReport("h1") /\ UNCHANGED <<cacheVars, elapsed, chat, doc, callVars>>
    \/ CompleteCase("h1") /\ UNCHANGED <<cacheVars, elapsed, chat, doc, callVars>>

Spec == Init /\ [][Next]_vars

\* Two activations of the generate handler at a time, on two cases with two
\* categories each and no documents loaded: the steps of the two requests,
\* for the same case or for different ones, interleave freely.
NextConcurrent ==
    \/ \E k \in 1..Len(CaseIdSeq) : analyzeIntake(k, DiabetesOnly)
          /\ UNCHANGED <<cacheVars, elapsed, chat, doc, callVars>>
    \/ \E s \in Slots, caseId \in CaseIds : generateReport(s, caseId)
          /\ UNCHANGED <<cacheVars, elapsed, chat, doc, callVars>>
    \/ \E s \in Slots, i \in 1..2, o \in GenerationOutcomes : GenerationReturns(s, i, o)
          /\ UNCHANGED <<cacheVars, elapsed, chat, doc, callVars>>
    \/ \E s \in Slots, i \in 1..2 : LookupReturns(s, i, <<"error">>)
          /\ UNCHANGED <<cacheVars, elapsed, chat, doc, callVars>>
    \/ \E s \in Slots : PersistReport(s)
          /\ UNCHANGED <<cacheVars, elapsed, chat, doc, callVars>>
    \/ \E s \in Slots : CompleteCase(s)
          /\ UNCHANGED <<cacheVars, elapsed, chat, doc, callVars>>

SpecConcurrent == Init /\ [][NextConcurrent]_vars

(***************************************************************************)
(* Properties of the category orchestrator and the store.                  *)
(***************************************************************************)
Tasks(s) == {req[s].tasks[i] : i \in 1..Len(req[s].tasks)}

Analyses(report) == {report.rightsAnalysis[i] : i \in 1..Len(report.rightsAnalysis)}

ReportsOf(caseId) == {i \in 1..Len(reports) : reports[i].caseId = caseId}

\* the request of slot s is over: answered, and every category task settled
Finished(s) ==
    /\ req[s].pc = "responded"
    /\ \A t \in Tasks(s) : Settled(t)

\* the request of slot s was answered with the persisted report that holds
\* exactly the analyses of its fulfilled, non-null category tasks
AnsweredWithPartialReport(s) ==
    /\ req[s].status = 200
    /\ req[s].report \in 1..Len(reports)
    /\ reports[req[s].report].caseId = req[s].caseId
    /\ reports[req[s].report].rightsAnalysis = validAnalysis(req[s].tasks)

\* the finished request of slot s had two or more categories, at least one of
\* them failed, and every failure was one of the errors errs
FailedOnlyWith(s, errs) ==
    /\ Finished(s)
    /\ Len(req[s].tasks) >= 2
    /\ \E t \in Tasks(s) : t.pc = "rejected"
    /\ \A t \in Tasks(s) : t.pc = "rejected" => t.error \in errs

\* C1: a generateReport request with two or more categories in which the
\* generation call threw for some categories is not rejected: it is answered
\* with a persisted report holding the analyses of the categories that
\* succeeded (possibly none).
C1_GenerationFailureKeepsReport ==
    \A s \in Slots :
        FailedOnlyWith(s, {"generation_error"}) => AnsweredWithPartialReport(s)

\* C2: a generateReport request in which the generation call of one category
\* returned content that is no JSON drops that category alone: the request
\* is answered with a persisted report holding the other categories.
C2_UnparsableOutputKeepsReport ==
    \A s \in Slots :
        (/\ FailedOnlyWith(s, {"SyntaxError"})
         /\ Cardinality({i \in 1..Len(req[s].tasks) :
                            req[s].tasks[i].pc = "rejected"}) = 1)
        => AnsweredWithPartialReport(s)

\* C3: looking a report up by case id returns the report persisted last for
\* that case: of two reports generated one after the other for one case, the
\* later one.
C3_NewestReportVisible ==
    \A c \in CaseIds :
        \A i \in ReportsOf(c) :
            /\ getReportByCaseId(c) # <<>>
            /\ getReportByCaseId(c)[1].id >= reports[i].id

\* the answers of the precedent lookup's call that carry no list of cases
LookupFailures == { <<"error">>, <<"empty">>, <<"nonarray">> }

\* the persisted report of the request of slot s holds exactly the analyses
\* its category tasks returned
ReportHoldsAnalyses(s) ==
    req[s].report > 0 =>
        /\ req[s].report \in 1..Len(reports)
        /\ reports[req[s].report].rightsAnalysis = validAnalysis(req[s].tasks)

\* C4: when the precedent lookup of a category errors, returns no content or
\* returns a payload that is no array, the category task is fulfilled with an
\* analysis whose similarCases list is empty and the request goes on as
\* before; the analysis is part of the report the request persists.
C4_LookupFailureGivesEmptyList ==
    /\ [](\A s \in Slots : ReportHoldsAnalyses(s))
    /\ [][\A s \in Slots, i \in 1..3, o \in LookupFailures :
             LookupReturns(s, i, o) =>
                 /\ req'[s].tasks[i].pc = "fulfilled"
                 /\ req'[s].tasks[i].value =
                        <<[rightType |-> req[s].tasks[i].type, similarCases |-> <<>>]>>
                 /\ req'[s].pc = req[s].pc
                 /\ req'[s].status = req[s].status]_vars

C4_Witness ==
    \E s \in Slots :
        /\ req[s].status = 200
        /\ req[s].report \in 1..Len(reports)
        /\ \E a \in Analyses(reports[req[s].report]) : a.similarCases = <<>>

RetrievalErrors == {EmbeddingError, "Vectors must have the same length"}

\* C5: a generateReport request in which the retrieval step of a category
\* failed (the query embedding call errored, or a stored vector had another
\* length than the query vector) drops that category: the request is answered
\* with a persisted report holding the remaining categories.
C5_RetrievalFailureKeepsReport ==
    \A s \in Slots :
        FailedOnlyWith(s, RetrievalErrors) => AnsweredWithPartialReport(s)

Completed(cs, c) == cs[c] # <<>> /\ cs[c][1].status = "completed"

\* C6: a completed case has a persisted report with its case id; a case
\* becomes completed only in a step of a request for it whose report is
\* persisted and whose category tasks have all settled; a completed case
\* stays completed.
C6_CompletedCaseHasReport ==
    /\ [](\A c \in CaseIds : Completed(cases, c) => ReportsOf(c) # {})
    /\ [][\A c \in CaseIds :
             /\ Completed(cases, c) => Completed(cases', c)
             /\ (~Completed(cases, c) /\ Completed(cases', c)) =>
                    \E s \in Slots :
                        /\ req[s].caseId = c
                        /\ req[s].pc = "created"
                        /\ req[s].report \in ReportsOf(c)
                        /\ \A t \in Tasks(s) : Settled(t)]_vars

C6_Witness ==
    \E c \in CaseIds : Completed(cases, c) /\ ReportsOf(c) # {}

\* the applicability predicate of a category, on the extracted entities
Applicable(cat, e) ==
    CASE cat = "health" -> e.medicalNeeds # <<>>
      [] cat = "education" -> e.educationNeeds # <<>>
      [] cat = "family_life" -> e.familySize # <<>> /\ e.familySize[1] > 1
      [] cat = "housing" -> TRUE
      [] OTHER -> FALSE

TypesOf(tasks) == [i \in 1..Len(tasks) |-> tasks[i].type]

\* C7: category tasks (and so retrieval, generation and precedent calls) exist
\* only for categories whose predicate holds for the case record read at
\* request start, and a persisted report holds analyses of such categories
\* only; a case whose only qualifying fact is medicalNeeds = ["diabetes"]
\* attempts exactly health and housing.
C7_OnlyApplicableCategories ==
    /\ \A s \in Slots : \A t \in Tasks(s) :
          /\ t.type \in RightsCategories
          /\ Applicable(t.type, req[s].entities[1])
    /\ \A s \in Slots :
          (req[s].entities = <<DiabetesOnly>>) =>
              TypesOf(req[s].tasks) = <<"health", "housing">>
    /\ \A i \in 1..Len(reports) : \A a \in Analyses(reports[i]) :
          Applicable(a.rightType, cases[reports[i].caseId][1].extractedEntities)

C7_Witness ==
    \E s \in Slots :
        /\ req[s].entities = <<DiabetesOnly>>
        /\ req[s].status = 200
        /\ req[s].report \in 1..Len(reports)
        /\ {a.rightType : a \in Analyses(reports[req[s].report])} = {"health", "housing"}

Issued(t, call) == \E k \in 1..Len(t.calls) : t.calls[k] = call

\* C9 as stated: the precedent lookup of a category is issued together with
\* its generation call, without waiting for it.
C9_LookupIssuedWithGeneration ==
    \A s \in Slots : \A t \in Tasks(s) :
        Issued(t, "generation") => Issued(t, "lookup")

\* C9 amended: the precedent lookup of a category is issued after its
\* generation call returned, and only when that returned parsable content:
\* while the generation call is in flight no lookup has been issued, and a
\* task that was rejected or returned null never issued one.
C9_LookupAfterGeneration ==
    \A s \in Slots : \A t \in Tasks(s) :
        /\ t.pc \in {"retrieving", "generating", "rejected"} => ~Issued(t, "lookup")
        /\ (t.pc = "fulfilled" /\ t.value = <<>>) => ~Issued(t, "lookup")
        /\ Issued(t, "lookup") =>
              /\ Len(t.calls) >= 2
              /\ t.calls[Len(t.calls) - 1] = "generation"
              /\ t.calls[Len(t.calls)] = "lookup"

C9_Witness ==
    \E s \in Slots : \E t1, t2 \in Tasks(s) :
        /\ t1.pc = "lookup"
        /\ t2.pc = "generating"

\* C10: a request has persisted its report only when every one of its
\* category tasks has settled, and every step that adds a report to the store
\* is taken by a request all of whose tasks have settled.
C10_FanInBarrier ==
    /\ [](\A s \in Slots :
            (req[s].pc = "created" \/ req[s].report > 0) =>
                \A t \in Tasks(s) : Settled(t))
    /\ [][Len(reports') > Len(reports) =>
             \E s \in Slots :
                 /\ req[s].pc = "awaiting"
                 /\ req'[s].report = Len(reports')
                 /\ \A t \in Tasks(s) : Settled(t)]_vars

C10_Witness ==
    \E s \in Slots :
        /\ req[s].pc = "created"
        /\ Len(req[s].tasks) >= 2
        /\ req[s].report = Len(reports)

ErrorStatuses == {400, 404, 500}

\* the case records that exist and are not what they were
ModifiedCases(before, after) ==
    {c \in CaseIds : before[c] # <<>> /\ after[c] # before[c]}

\* C11: a request without caseId is answered 400 and one with an unknown
\* caseId 404, each with no category task started, so no retrieval, generation
\* or precedent call issued; a request answered 400, 404 or 500 has persisted
\* no report, and every step that adds a report or modifies a case record is
\* taken by a request that has not been answered, and is not answered with an
\* error afterwards.
C11_ErrorResponseLeavesNoTrace ==
    /\ [](\A s \in Slots :
            /\ req[s].status \in {400, 404} => req[s].tasks = <<>>
            /\ req[s].status \in ErrorStatuses =>
                  (req[s].pc = "responded" /\ req[s].report = 0))
    /\ [][\A s \in Slots :
             /\ (req'[s] # req[s] /\ req'[s].status = 400) =>
                    req'[s].caseId = NoCaseId
             /\ (req'[s] # req[s] /\ req'[s].caseId = NoCaseId) =>
                    req'[s].status = 400
             /\ (req'[s] # req[s] /\ req'[s].status = 404) =>
                    getCase(req'[s].caseId) = <<>>
             /\ (req'[s] # req[s] /\ req'[s].caseId # NoCaseId
                    /\ getCase(req'[s].caseId) = <<>>) =>
                    req'[s].status = 404
             /\ (req'[s].status \in ErrorStatuses \/ req[s].status \in ErrorStatuses) =>
                    (reports' = reports /\ ModifiedCases(cases, cases') = {})]_vars

C11_Witness ==
    \E s \in Slots :
        /\ req[s].status = 500
        /\ \E t \in Tasks(s) : t.pc = "fulfilled" /\ t.value # <<>>
        /\ \A t \in Tasks(s) : Settled(t)
        /\ reports = <<>>
        /\ cases[req[s].caseId][1].status = "draft"

(***************************************************************************)
(* The embedding cache store: embeddingsService.ts, and its caller         *)
(* initializeDocumentSystem of initService.ts, step by step.               *)
(***************************************************************************)
\* chunks per embedding request (BATCH_SIZE, 100 in the source)
BatchSize == 2

\* restarts of the server process in one behaviour
MaxRestarts == 2

\* the version saveEmbeddingsCache writes into the header
CacheVersion == "1.0"

PDFChunk(id, filename, country, pageNumber, text) ==
    [id |-> id, filename |-> filename, country |-> country,
     pageNumber |-> pageNumber, text |-> text]

\* what processPDFs returns for the documents under data/, ids chunk_N by a
\* counter over all files: the first corpus; the corpus after the first page
\* of a.pdf was removed (every later chunk moves up one id); no documents
Snapshots ==
    << << PDFChunk("chunk_0", "a.pdf", "switzerland", 1, "t0"),
          PDFChunk("chunk_1", "a.pdf", "switzerland", 2, "t1"),
          PDFChunk("chunk_2", "b.pdf", "unknown", 1, "t2"),
          PDFChunk("chunk_3", "b.pdf", "unknown", 2, "t3") >>,
       << PDFChunk("chunk_0", "a.pdf", "switzerland", 1, "t1"),
          PDFChunk("chunk_1", "b.pdf", "unknown", 1, "t2"),
          PDFChunk("chunk_2", "b.pdf", "unknown", 2, "t3") >>,
       << >> >>

\* the vector the embedding capability computes for a text
EmbeddingOf(text) ==
    CASE text = "t0" -> <<1, 0>>
      [] text = "t1" -> <<0, 1>>
      [] text = "t2" -> <<1, 1>>
      [] text = "t3" -> <<2, 1>>
      [] OTHER -> <<0, 0>>

\* the record generateEmbeddings pushes for a chunk of a succeeded batch
EmbeddingData(chunk) ==
    [chunkId |-> chunk.id, embedding |-> EmbeddingOf(chunk.text),
     filename |-> chunk.filename, country |-> chunk.country,
     pageNumber |-> chunk.pageNumber, text |-> chunk.text]

\* chunks.slice(i, Math.min(i + BATCH_SIZE, chunks.length)), i from 0
Batch(chunks, i) ==
    SubSeq(chunks, i + 1, IF i + BatchSize < Len(chunks) THEN i + BatchSize ELSE Len(chunks))

\* the request the embedding capability receives for the batch at i
BatchRequest(snapshot, chunks, i) ==
    [snapshot |-> snapshot,
     ids |-> [j \in 1..Len(Batch(chunks, i)) |-> Batch(chunks, i)[j].id]]

\* variant: the cached format keeps no page number, a record loads as page 1
CachedEmbeddingData_NoPage(e) ==
    [chunkId |-> e.chunkId, embedding |-> e.embedding, filename |-> e.filename,
     country |-> e.country, pageNumber |-> 1]

\* the cached format: the record without its text
CachedEmbeddingData(e) ==
    [chunkId |-> e.chunkId, embedding |-> e.embedding, filename |-> e.filename,
     country |-> e.country, pageNumber |-> e.pageNumber]

\* the pieces saveEmbeddingsCache hands to writeStream.write, one per call
HeaderText(version) == [tok |-> "header", version |-> version]
RecordText(cached) == [tok |-> "record", value |-> cached]
CommaText == [tok |-> "comma"]
FooterText == [tok |-> "footer"]

\* JSON.stringify(cached) for each record, a comma behind all but the last
RECURSIVE RecordTexts(_)
RecordTexts(es) ==
    IF es = <<>> THEN <<>>
    ELSE <<RecordText(CachedEmbeddingData(Head(es)))>>
         \o (IF Len(es) > 1 THEN <<CommaText>> ELSE <<>>)
         \o RecordTexts(Tail(es))

\* everything saveEmbeddingsCache writes: header, records, footer
CacheText(version, es) == <<HeaderText(version)>> \o RecordTexts(es) \o <<FooterText>>

\* the text between "[" and "]" is a list of records separated by commas
RECURSIVE IsRecordList(_)
IsRecordList(texts) ==
    \/ texts = <<>>
    \/ /\ texts[1].tok = "record"
       /\ \/ Len(texts) = 1
          \/ /\ Len(texts) >= 3
             /\ texts[2].tok = "comma"
             /\ IsRecordList(SubSeq(texts, 3, Len(texts)))

\* JSON.parse of the file's content: <<cache>>, or <<>> when it throws
JSONparse(content) ==
    IF /\ Len(content) >= 2
       /\ content[1].tok = "header"
       /\ content[Len(content)].tok = "footer"
       /\ IsRecordList(SubSeq(content, 2, Len(content) - 1))
    THEN <<[version |-> content[1].version,
            embeddings |-> [j \in 1..((Len(content) - 1) \div 2) |->
                               content[2 * j].value]]>>
    ELSE <<>>

\* chunkMap.get(id)?.text || "": the Map keeps the last chunk of an id
TextOf(chunks, id) ==
    LET at == {j \in 1..Len(chunks) : chunks[j].id = id}
    IN IF at = {} THEN ""
       ELSE chunks[CHOOSE j \in at : \A k \in at : k <= j].text

\* { ...cached, text }
WithText(cached, text) ==
    [chunkId |-> cached.chunkId, embedding |-> cached.embedding,
     filename |-> cached.filename, country |-> cached.country,
     pageNumber |-> cached.pageNumber, text |-> text]

\* variant: no try/catch around the parse
loadEmbeddingsCache_NoCatch(file, chunks) ==
    IF ~file.exists THEN [threw |-> FALSE, value |-> <<>>]
    ELSE LET cache == JSONparse(file.content)
         IN IF cache = <<>> THEN [threw |-> TRUE, value |-> <<>>]
            ELSE [threw |-> FALSE,
                  value |-> <<[j \in 1..Len(cache[1].embeddings) |->
                      WithText(cache[1].embeddings[j],
                               TextOf(chunks, cache[1].embeddings[j].chunkId))]>>]

\* loadEmbeddingsCache: value is <<>> for null, else <<the records>>; threw
\* says that an exception left the function
loadEmbeddingsCache(file, chunks) ==
    IF ~file.exists THEN [threw |-> FALSE, value |-> <<>>]
    ELSE LET cache == JSONparse(file.content)
         IN IF cache = <<>> THEN [threw |-> FALSE, value |-> <<>>]
            ELSE [threw |-> FALSE,
                  value |-> <<[j \in 1..Len(cache[1].embeddings) |->
                      WithText(cache[1].embeddings[j],
                               TextOf(chunks, cache[1].embeddings[j].chunkId))]>>]

\* saveEmbeddingsCache: the stream is created and every write queued; the
\* file is opened and written when the event loop gets to it
WriteStream(es) == <<[opened |-> FALSE, queue |-> CacheText(CacheVersion, es)]>>

\* initializeDocumentSystem up to its first await of an embedding request:
\* processPDFs, then initializeEmbeddings, which loads the cache, returns an
\* empty table for no chunks, or starts generateEmbeddings with the first batch
initializeEmbeddings ==
    /\ run.pc = "idle"
    /\ ~isInitialized
    /\ LET chunks == Snapshots[corpus]
           cached == loadEmbeddingsCache(cacheFile, chunks)
       IN /\ pdfChunks' = chunks
          /\ IF cached.threw
             THEN /\ run' = [IdleRun EXCEPT !.pc = "failed", !.snapshot = corpus]
                  /\ UNCHANGED <<embeddings, isInitialized, sent>>
             ELSE IF cached.value # <<>> /\ Len(cached.value[1]) > 0
             THEN /\ run' = [IdleRun EXCEPT !.pc = "done", !.snapshot = corpus,
                                            !.source = "cache"]
                  /\ embeddings' = cached.value[1]
                  /\ isInitialized' = TRUE
                  /\ UNCHANGED sent
             ELSE IF Len(chunks) = 0
             THEN /\ run' = [IdleRun EXCEPT !.pc = "done", !.snapshot = corpus,
                                            !.source = "empty"]
                  /\ embeddings' = <<>>
                  /\ isInitialized' = TRUE
                  /\ UNCHANGED sent
             ELSE /\ run' = [IdleRun EXCEPT !.pc = "generating", !.snapshot = corpus,
                                            !.source = "generated"]
                  /\ sent' = Append(sent, BatchRequest(corpus, chunks, 0))
                  /\ UNCHANGED <<embeddings, isInitialized>>
    /\ UNCHANGED <<corpus, cacheFile, stream, saved, restarts>>
    /\ UNCHANGED <<engineVars, elapsed, chat, doc, callVars>>

\* variant: a failed batch ends the loop
BatchReturns_StopAtFailure(ok) ==
    /\ run.pc = "generating"
    /\ LET batch == Batch(pdfChunks, run.i)
           list == IF ok THEN run.list \o [j \in 1..Len(batch) |-> EmbeddingData(batch[j])]
                         ELSE run.list
           next == run.i + BatchSize
       IN IF ok /\ next < Len(pdfChunks)
          THEN /\ run' = [run EXCEPT !.i = next, !.list = list,
                                     !.outcomes = Append(@, ok)]
               /\ sent' = Append(sent, BatchRequest(run.snapshot, pdfChunks, next))
               /\ UNCHANGED <<embeddings, isInitialized, stream, saved>>
          ELSE /\ run' = [run EXCEPT !.pc = "done", !.list = list,
                                     !.outcomes = Append(@, ok)]
               /\ stream' = WriteStream(list)
               /\ saved' = <<[snapshot |-> run.snapshot, embeddings |-> list]>>
               /\ embeddings' = list
               /\ isInitialized' = TRUE
               /\ UNCHANGED sent
    /\ UNCHANGED <<corpus, cacheFile, pdfChunks, restarts>>
    /\ UNCHANGED <<engineVars, elapsed, chat, doc, callVars>>

\* generateEmbeddings resumes with the answer for the batch at run.i: the
\* records of a succeeded batch are pushed, a failed one is logged; then the
\* next batch is requested, or, after the last one, the list is returned,
\* saveEmbeddingsCache called, and initializeDocumentSystem sets its state
BatchReturns(ok) ==
    /\ run.pc = "generating"
    /\ LET batch == Batch(pdfChunks, run.i)
           list == IF ok THEN run.list \o [j \in 1..Len(batch) |-> EmbeddingData(batch[j])]
                         ELSE run.list
           next == run.i + BatchSize
       IN IF next < Len(pdfChunks)
          THEN /\ run' = [run EXCEPT !.i = next, !.list = list,
                                     !.outcomes = Append(@, ok)]
               /\ sent' = Append(sent, BatchRequest(run.snapshot, pdfChunks, next))
               /\ UNCHANGED <<embeddings, isInitialized, stream, saved>>
          ELSE /\ run' = [run EXCEPT !.pc = "done", !.list = list,
                                     !.outcomes = Append(@, ok)]
               /\ stream' = WriteStream(list)
               /\ saved' = <<[snapshot |-> run.snapshot, embeddings |-> list]>>
               /\ embeddings' = list
               /\ isInitialized' = TRUE
               /\ UNCHANGED sent
    /\ UNCHANGED <<corpus, cacheFile, pdfChunks, restarts>>
    /\ UNCHANGED <<engineVars, elapsed, chat, doc, callVars>>

\* the write stream makes progress: the file is opened (and so truncated),
\* then one queued write after the other reaches it; after the last the
\* stream is closed
FlushCache ==
    /\ stream # <<>>
    /\ IF ~stream[1].opened
       THEN /\ cacheFile' = [exists |-> TRUE, content |-> <<>>]
            /\ stream' = <<[stream[1] EXCEPT !.opened = TRUE]>>
       ELSE /\ cacheFile' = [cacheFile EXCEPT !.content = Append(@, Head(stream[1].queue))]
            /\ stream' = IF Len(stream[1].queue) = 1 THEN <<>>
                         ELSE <<[stream[1] EXCEPT !.queue = Tail(@)]>>
    /\ UNCHANGED <<corpus, run, pdfChunks, sent, saved, restarts, tableVars>>
    /\ UNCHANGED <<engineVars, elapsed, chat, doc, callVars>>

\* the server process ends, at any point, and is started again: the module
\* state of initService and the write stream are gone, the files stay
Restart ==
    /\ restarts < MaxRestarts
    /\ restarts' = restarts + 1
    /\ run' = IdleRun
    /\ pdfChunks' = <<>>
    /\ embeddings' = <<>>
    /\ isInitialized' = FALSE
    /\ stream' = <<>>
    /\ UNCHANGED <<corpus, cacheFile, sent, saved>>
    /\ UNCHANGED <<engineVars, elapsed, chat, doc, callVars>>

\* the documents under data/ change
ChangeCorpus ==
    /\ corpus < Len(Snapshots)
    /\ corpus' = corpus + 1
    /\ UNCHANGED <<cacheFile, stream, run, pdfChunks, sent, saved, restarts, tableVars>>
    /\ UNCHANGED <<engineVars, elapsed, chat, doc, callVars>>

\* the cache files the server can find at its first start: none, one that
\* is no JSON, one written in an earlier format for the first corpus
InitialFiles ==
    { NoFile,
      [exists |-> TRUE, content |-> <<[tok |-> "garbage"]>>],
      [exists |-> TRUE,
       content |-> CacheText("0.9", [j \in 1..Len(Snapshots[1]) |->
                                        EmbeddingData(Snapshots[1][j])])] }

InitCache ==
    /\ InitEngine
    /\ InitHandlers
    /\ InitCalls
    /\ corpus = 1
    /\ cacheFile \in InitialFiles
    /\ stream = <<>>
    /\ run = IdleRun
    /\ pdfChunks = <<>>
    /\ sent = <<>>
    /\ saved = <<>>
    /\ restarts = 0

NextCache ==
    \/ initializeEmbeddings
    \/ \E ok \in BOOLEAN : BatchReturns(ok)
    \/ FlushCache
    \/ Restart
    \/ ChangeCorpus

\* The embedding cache store over the life of the cache file: the server
\* starts, initializes, writes the cache, is restarted; the documents change.
SpecCache == InitCache /\ [][NextCache]_vars

(***************************************************************************)
(* Properties of the embedding cache store.                                *)
(***************************************************************************)
\* C12: once saveEmbeddingsCache has been called for the corpus on disk, a
\* later initialization on that corpus, in the same process or after a
\* restart, sends no chunk of it to the embedding capability again.
C12_NoEmbeddingCallAfterSave ==
    [][\A j \in (Len(sent) + 1)..Len(sent') :
          saved = <<>> \/ saved[1].snapshot # sent'[j].snapshot]_vars

\* C13: the table is taken from the cache file only when the file's version
\* is the current one; a cache of another version is discarded.
C13_IncompatibleVersionDiscarded ==
    run.source = "cache" =>
        /\ JSONparse(cacheFile.content) # <<>>
        /\ JSONparse(cacheFile.content)[1].version = CacheVersion

\* C14: once the server has written the cache itself, every record of the
\* in-memory table of an initialized server pairs a vector with the chunk
\* text that vector was computed from, whatever happened to the documents.
C14_VectorsMatchTexts ==
    (isInitialized /\ saved # <<>>) =>
        \A j \in 1..Len(embeddings) :
            embeddings[j].embedding = EmbeddingOf(embeddings[j].text)

\* the records of the batches that succeeded, in chunk order; outcomes holds
\* one flag per answered batch, i is the offset of the first of them
RECURSIVE RecordsOfSucceeded(_, _, _)
RecordsOfSucceeded(chunks, outcomes, i) ==
    IF outcomes = <<>> THEN <<>>
    ELSE (IF Head(outcomes)
            THEN [j \in 1..Len(Batch(chunks, i)) |-> EmbeddingData(Batch(chunks, i)[j])]
            ELSE <<>>)
         \o RecordsOfSucceeded(chunks, Tail(outcomes), i + BatchSize)

NumBatches(chunks) == (Len(chunks) + BatchSize - 1) \div BatchSize

\* the batches the run in progress has requested so far
Requested == Len(run.outcomes) + (IF run.pc = "generating" THEN 1 ELSE 0)

\* C15: in the compute path the batches are requested one after another, in
\* chunk order, the next one when the one before was answered; a failed batch
\* does not end the run: when the run is done every batch was requested and
\* answered, and the table holds the records of exactly the chunks of the
\* succeeded batches, in chunk order.
C15_FailedBatchSkipped ==
    run.source = "generated" =>
        /\ run.pc \in {"generating", "done"}
        /\ run.list = RecordsOfSucceeded(pdfChunks, run.outcomes, 0)
        /\ run.pc = "generating" => run.i = Len(run.outcomes) * BatchSize
        /\ Requested <= Len(sent)
        /\ \A k \in 1..Requested :
              sent[Len(sent) - Requested + k] =
                  BatchRequest(run.snapshot, pdfChunks, (k - 1) * BatchSize)
        /\ run.pc = "done" =>
              /\ Len(run.outcomes) = NumBatches(pdfChunks)
              /\ isInitialized
              /\ embeddings = run.list

C15_Witness ==
    /\ run.pc = "done"
    /\ run.source = "generated"
    /\ \E k \in 1..(Len(run.outcomes) - 1) : ~run.outcomes[k] /\ run.outcomes[k + 1]
    /\ embeddings # <<>>
    /\ Len(embeddings) < Len(pdfChunks)

\* loadEmbeddingsCache finds no usable cache: no file, or one that is no JSON
NoCache == ~cacheFile.exists \/ JSONparse(cacheFile.content) = <<>>

\* what saveEmbeddingsCache wrote for es is in the file or still queued
CacheWritten(es) ==
    IF stream = <<>> THEN cacheFile = [exists |-> TRUE, content |-> CacheText(CacheVersion, es)]
    ELSE IF stream[1].opened
    THEN cacheFile.exists /\ cacheFile.content \o stream[1].queue = CacheText(CacheVersion, es)
    ELSE stream[1].queue = CacheText(CacheVersion, es)

\* C16: initialization never fails; when the cache file is missing, cut off
\* or no JSON, initialization of a corpus with chunks requests embeddings
\* from the first batch on, and when that run is done every batch has been
\* requested and saveEmbeddingsCache has written the new table.
C16_BrokenCacheRegenerated ==
    /\ [](run.pc # "failed")
    /\ [][(run.pc = "idle" /\ run'.pc # "idle" /\ NoCache /\ Snapshots[corpus] # <<>>) =>
             /\ run'.pc = "generating"
             /\ sent' = Append(sent, BatchRequest(corpus, Snapshots[corpus], 0))]_vars
    /\ []((run.source = "generated" /\ run.pc = "done") =>
             /\ Len(run.outcomes) = NumBatches(pdfChunks)
             /\ saved = <<[snapshot |-> run.snapshot, embeddings |-> run.list]>>
             /\ CacheWritten(run.list))

\* a run regenerates while the file holds the beginning of a cache that an
\* earlier process did not get to finish
C16_Witness ==
    /\ run.pc = "generating"
    /\ restarts > 0
    /\ cacheFile.exists
    /\ Len(cacheFile.content) >= 2
    /\ cacheFile.content[1] = HeaderText(CacheVersion)
    /\ JSONparse(cacheFile.content) = <<>>

\* the table was loaded from the file that the latest saveEmbeddingsCache
\* call wrote in full
LoadedWhatWasSaved ==
    /\ run.pc = "done"
    /\ run.source = "cache"
    /\ saved # <<>>
    /\ cacheFile.content = CacheText(CacheVersion, saved[1].embeddings)

\* C17: a table loaded from the file a save wrote holds, record by record,
\* the chunk id, vector, filename, country and page number handed to the
\* save; the text of a record is the text of the chunk with its id in the
\* chunk set of the load, and empty when there is no such chunk; against the
\* chunk set of the save the loaded table is the saved one.
C17_CacheRoundTrip ==
    LoadedWhatWasSaved =>
        /\ Len(embeddings) = Len(saved[1].embeddings)
        /\ \A j \in 1..Len(embeddings) :
              LET before == saved[1].embeddings[j]
                  after == embeddings[j]
                  chunksOfId == {k \in 1..Len(pdfChunks) : pdfChunks[k].id = before.chunkId}
              IN /\ after.chunkId = before.chunkId
                 /\ after.embedding = before.embedding
                 /\ after.filename = before.filename
                 /\ after.country = before.country
                 /\ after.pageNumber = before.pageNumber
                 /\ \A k \in chunksOfId : after.text = pdfChunks[k].text
                 /\ chunksOfId = {} => after.text = ""
        /\ run.snapshot = saved[1].snapshot => embeddings = saved[1].embeddings

C17_Witness ==
    /\ LoadedWhatWasSaved
    /\ \E j \in 1..Len(embeddings) : embeddings[j].text = ""
    /\ \E j \in 1..Len(embeddings) : embeddings[j].text # ""

(***************************************************************************)
(* The generate handler and the passing of time.                           *)
(***************************************************************************)
\* time units after which a generate request is to be answered
RequestCeiling == 3

\* one time unit passes while the handler awaits its category tasks or the
\* store; no timer runs in the handler, so nothing else happens
Tick ==
    /\ req["h1"].pc \in {"awaiting", "created"}
    /\ elapsed <= RequestCeiling
    /\ elapsed' = elapsed + 1
    /\ UNCHANGED <<engineVars, tableVars, cacheVars, chat, doc, callVars>>

\* One generate request at a time for a case with two categories, no
\* documents loaded; an external call may take any time to answer.
NextTimed ==
    \/ analyzeIntake(1, DiabetesOnly) /\ UNCHANGED <<cacheVars, elapsed, chat, doc, callVars>>
    \/ generateReport("h1", CaseIdSeq[1]) /\ elapsed' = 0
          /\ UNCHANGED <<cacheVars, chat, doc, callVars>>
    \/ \E i \in 1..2, o \in GenerationOutcomes : GenerationReturns("h1", i, o)
          /\ UNCHANGED <<cacheVars, elapsed, chat, doc, callVars>>
    \/ \E i \in 1..2, o \in LookupOutcomes : LookupReturns("h1", i, o)
          /\ UNCHANGED <<cacheVars, elapsed, chat, doc, callVars>>
    \/ PersistReport("h1") /\ UNCHANGED <<cacheVars, elapsed, chat, doc, callVars>>
    \/ CompleteCase("h1") /\ UNCHANGED <<cacheVars, elapsed, chat, doc, callVars>>
    \/ Tick

SpecTimed == Init /\ [][NextTimed]_vars

\* C18: a generate request is answered by the time the ceiling has elapsed,
\* also when some of its category tasks are still unresolved then: with a
\* persisted report that holds the analyses of the categories that succeeded.
C18_AnsweredWithinCeiling ==
    elapsed > RequestCeiling =>
        /\ req["h1"].pc = "responded"
        /\ req["h1"].status = 200
        /\ req["h1"].report \in 1..Len(reports)
        /\ \A t \in Tasks("h1") :
              (t.pc = "fulfilled" /\ t.value # <<>>) =>
                  t.value[1] \in Analyses(reports[req["h1"].report])

(***************************************************************************)
(* The chat handler: POST /api/chat.  The answer is streamed: every chunk  *)
(* the generation stream yields is a step of the handler.                  *)
(***************************************************************************)
\* the message of a request body: absent, blank, or a question
Messages == {"", "  ", "question"}

\* !message || message.trim().length === 0
Blank(message) == message \in {"", "  "}

\* the delta contents the generation stream of a chat can yield, chunk by
\* chunk ("" for a chunk without content); each chat has tokens of its own
StreamsOf(c) ==
    IF c = "c1" THEN { <<"", "a1", "b1">>, <<"a1">> }
    ELSE { <<"a2", "", "b2">> }

\* what the client of the chat has been sent: res.write reaches the client
\* while the connection is open
Deliver(r, event) == IF r.connected THEN Append(r.received, event) ELSE r.received

\* the handler is not running in the slot
FreeChat(c) == chat[c].pc \in {"idle", "done"}

\* the handler up to its first await: 400 for a blank message, else the
\* retrieval of context when documents are loaded, else the generation call
postChat(c, message) ==
    /\ FreeChat(c)
    /\ chat' = [chat EXCEPT ![c] =
          IF Blank(message)
          THEN [IdleChat EXCEPT !.pc = "done", !.connected = TRUE,
                                !.status = 400, !.ended = TRUE]
          ELSE [IdleChat EXCEPT !.pc = IF Len(embeddings) > 0 THEN "context" ELSE "opening",
                                !.connected = TRUE]]
    /\ UNCHANGED <<engineVars, tableVars, cacheVars, elapsed, doc, callVars>>

\* getRAGContext returns, or throws: the catch answers 500
ContextReturns(c, ok) ==
    /\ chat[c].pc = "context"
    /\ chat' = [chat EXCEPT ![c] =
          IF ok THEN [@ EXCEPT !.pc = "opening"]
          ELSE [@ EXCEPT !.pc = "done", !.status = 500, !.ended = TRUE]]
    /\ UNCHANGED <<engineVars, tableVars, cacheVars, elapsed, doc, callVars>>

\* openai.chat.completions.create returns the stream, or throws: no header
\* has been sent yet, the catch answers 500
StreamOpens(c, ok) ==
    /\ chat[c].pc = "opening"
    /\ IF ok
       THEN \E source \in StreamsOf(c) :
               chat' = [chat EXCEPT ![c].pc = "streaming", ![c].source = source]
       ELSE chat' = [chat EXCEPT ![c].pc = "done", ![c].status = 500, ![c].ended = TRUE]
    /\ UNCHANGED <<engineVars, tableVars, cacheVars, elapsed, doc, callVars>>

\* one turn of the for await loop: the next chunk is taken from the stream
\* and its content, when there is one, written to the response
StreamYields(c) ==
    /\ chat[c].pc = "streaming"
    /\ chat[c].consumed < Len(chat[c].source)
    /\ LET content == chat[c].source[chat[c].consumed + 1]
       IN chat' = [chat EXCEPT ![c] =
             IF content = "" THEN [@ EXCEPT !.consumed = @ + 1]
             ELSE [@ EXCEPT !.consumed = @ + 1,
                            !.written = Append(@, content),
                            !.received = Deliver(chat[c], content),
                            !.status = 200]]
    /\ UNCHANGED <<engineVars, tableVars, cacheVars, elapsed, doc, callVars>>

\* the stream is exhausted: the done event is written, res.end()
StreamEnds(c) ==
    /\ chat[c].pc = "streaming"
    /\ chat[c].consumed = Len(chat[c].source)
    /\ chat' = [chat EXCEPT ![c].pc = "done",
                            ![c].written = Append(@, "done"),
                            ![c].received = Deliver(chat[c], "done"),
                            ![c].status = 200,
                            ![c].ended = TRUE]
    /\ UNCHANGED <<engineVars, tableVars, cacheVars, elapsed, doc, callVars>>

\* the stream throws in the loop: the catch answers 500 when no header was
\* sent, and does nothing when a token was written before
StreamFails(c) ==
    /\ chat[c].pc = "streaming"
    /\ chat' = [chat EXCEPT ![c] =
          IF chat[c].written = <<>>
          THEN [@ EXCEPT !.pc = "done", !.status = 500, !.ended = TRUE]
          ELSE [@ EXCEPT !.pc = "done"]]
    /\ UNCHANGED <<engineVars, tableVars, cacheVars, elapsed, doc, callVars>>

\* the caller closes the connection before the response has ended; the
\* handler listens to no event of the request or the response
Disconnect(c) ==
    /\ chat[c].connected
    /\ ~chat[c].ended
    /\ chat[c].pc # "idle"
    /\ chat' = [chat EXCEPT ![c].connected = FALSE]
    /\ UNCHANGED <<engineVars, tableVars, cacheVars, elapsed, doc, callVars>>

\* the server is initialized, with or without documents
InitChat ==
    /\ cases = [c \in CaseIds |-> <<>>]
    /\ reports = <<>>
    /\ req = [s \in Slots |-> IdleRequest]
    /\ embeddings \in EmbeddingTables
    /\ isInitialized = TRUE
    /\ InitCacheStore
    /\ InitHandlers
    /\ InitCalls

NextChat ==
    \/ \E c \in ChatSlots, message \in Messages : postChat(c, message)
    \/ \E c \in ChatSlots, ok \in BOOLEAN : ContextReturns(c, ok)
    \/ \E c \in ChatSlots, ok \in BOOLEAN : StreamOpens(c, ok)
    \/ \E c \in ChatSlots : StreamYields(c)
    \/ \E c \in ChatSlots : StreamEnds(c)
    \/ \E c \in ChatSlots : StreamFails(c)
    \/ \E c \in ChatSlots : Disconnect(c)

\* Two chats at a time; their steps and the disconnects of their callers
\* interleave freely.
SpecChat == InitChat /\ [][NextChat]_vars

\* the contents of the chunks that have one, in stream order
RECURSIVE Contents(_)
Contents(source) ==
    IF source = <<>> THEN <<>>
    ELSE (IF Head(source) = "" THEN <<>> ELSE <<Head(source)>>) \o Contents(Tail(source))

IsPrefix(a, b) == Len(a) <= Len(b) /\ a = SubSeq(b, 1, Len(a))

\* C19: once the caller of a chat has disconnected, no further chunk is taken
\* from that chat's generation stream and nothing more is written to its
\* response; whatever happens to one chat, every chat is sent tokens of its
\* own stream only, in stream order, and all of them while its caller stays
\* connected to the end.
C19_DisconnectStopsStream ==
    /\ [][\A c \in ChatSlots :
             (chat[c].pc = "streaming" /\ ~chat[c].connected) =>
                 /\ chat'[c].consumed = chat[c].consumed
                 /\ chat'[c].written = chat[c].written]_vars
    /\ [](\A c \in ChatSlots :
             /\ IsPrefix(chat[c].received, Contents(chat[c].source) \o <<"done">>)
             /\ (chat[c].ended /\ chat[c].connected /\ chat[c].status = 200) =>
                    chat[c].received = Contents(chat[c].source) \o <<"done">>)

(***************************************************************************)
(* The document handler: GET /api/documents/:filename.  A string is the    *)
(* sequence of its characters, so that path.join and startsWith are what   *)
(* they are on strings.                                                    *)
(***************************************************************************)
\* path segments in a requested filename
MaxSegments == 3

\* process.cwd(): "/w"
Cwd == <<"/", "w">>

\* "data"
DataName == <<"d", "a", "t", "a">>

\* the names a requested filename is made of: "..", ".", "f", "s" (a folder
\* under data), "data" and "datax" (a folder next to data)
SegmentNames ==
    { <<".", ".">>, <<".">>, <<"f">>, <<"s">>, DataName, DataName \o <<"x">> }

\* the parts joined by "/"
RECURSIVE JoinWithSlash(_)
JoinWithSlash(parts) ==
    IF parts = <<>> THEN <<>>
    ELSE IF Len(parts) = 1 THEN parts[1]
    ELSE parts[1] \o <<"/">> \o JoinWithSlash(Tail(parts))

\* req.params.filename after decoding (%2F is "/"): one to MaxSegments names
Filenames ==
    {JoinWithSlash(names) : names \in UNION {[1..n -> SegmentNames] : n \in 1..MaxSegments}}

\* the string cut at every "/"
RECURSIVE SplitAtSlash(_)
SplitAtSlash(str) ==
    IF str = <<>> THEN << <<>> >>
    ELSE LET rest == SplitAtSlash(Tail(str))
         IN IF Head(str) = "/" THEN << <<>> >> \o rest
            ELSE << <<Head(str)>> \o rest[1] >> \o Tail(rest)

\* the segments of an absolute path with "", "." and ".." resolved; ".." at
\* the root stays at the root
RECURSIVE ResolveSegments(_, _)
ResolveSegments(segments, done) ==
    IF segments = <<>> THEN done
    ELSE IF Head(segments) \in {<<>>, <<".">>} THEN ResolveSegments(Tail(segments), done)
    ELSE IF Head(segments) = <<".", ".">>
    THEN ResolveSegments(Tail(segments),
                         IF done = <<>> THEN done ELSE SubSeq(done, 1, Len(done) - 1))
    ELSE ResolveSegments(Tail(segments), Append(done, Head(segments)))

\* path.normalize of an absolute path without a trailing slash
pathNormalize(str) ==
    <<"/">> \o JoinWithSlash(ResolveSegments(SplitAtSlash(str), <<>>))

\* path.join: the parts joined by "/", normalized
pathJoin(parts) == pathNormalize(JoinWithSlash(parts))

\* String.prototype.startsWith
startsWith(str, prefix) ==
    Len(prefix) <= Len(str) /\ SubSeq(str, 1, Len(prefix)) = prefix

\* the files on the server's disk: documents under data, one in a folder
\* next to it, one in the working directory
Files ==
    { pathJoin(<<Cwd, DataName, <<"f">>>>),
      pathJoin(<<Cwd, DataName, <<"s">>, <<"f">>>>),
      pathJoin(<<Cwd, DataName \o <<"x">>, <<"f">>>>),
      pathJoin(<<Cwd, <<"f">>>>) }

Directories ==
    { <<"/">>, Cwd, pathJoin(<<Cwd, DataName>>), pathJoin(<<Cwd, DataName, <<"s">>>>),
      pathJoin(<<Cwd, DataName \o <<"x">>>>) }

\* fs.existsSync
existsSync(path) == path \in Files \cup Directories

\* the handler: 403 when the joined path does not start with the data
\* directory's path, 404 when nothing exists at it, else res.sendFile, which
\* sends a file and passes a directory on (answered 404 here)
serveDocument(filename) ==
    /\ LET filePath == pathJoin(<<Cwd, DataName, filename>>)
           normalizedPath == pathNormalize(filePath)
           dataDir == pathJoin(<<Cwd, DataName>>)
       IN doc' = IF ~startsWith(normalizedPath, dataDir)
                 THEN [filename |-> filename, status |-> 403, served |-> <<>>]
                 ELSE IF ~existsSync(filePath)
                 THEN [filename |-> filename, status |-> 404, served |-> <<>>]
                 ELSE IF filePath \in Files
                 THEN [filename |-> filename, status |-> 200, served |-> <<filePath>>]
                 ELSE [filename |-> filename, status |-> 404, served |-> <<>>]
    /\ UNCHANGED <<engineVars, tableVars, cacheVars, elapsed, chat, callVars>>

NextDocuments == \E filename \in Filenames : serveDocument(filename)

\* Requests for documents, one after another, with every filename.
SpecDocuments == Init /\ [][NextDocuments]_vars

\* the segments of the document root, process cwd + "data"
RootSegments == ResolveSegments(SplitAtSlash(Cwd \o <<"/">> \o DataName), <<>>)

\* the path the requested filename resolves to lies outside the root
ResolvesOutside(filename) ==
    LET segments == ResolveSegments(
                        SplitAtSlash(Cwd \o <<"/">> \o DataName \o <<"/">> \o filename), <<>>)
    IN ~(Len(RootSegments) <= Len(segments)
         /\ SubSeq(segments, 1, Len(RootSegments)) = RootSegments)

\* C20: a request whose filename resolves to a path outside the document
\* root, a folder next to it whose name starts with "data" included, is
\* sent no file: it is answered with an error status and nothing is served.
C20_OutsideRootRejected ==
    (doc.status # 0 /\ ResolvesOutside(doc.filename)) =>
        /\ doc.status \in {403, 404}
        /\ doc.served = <<>>

\* ---------------------------------------------------------------------------
\* Cutting a text into segments: chunkText (pdfProcessor.ts)
\* ---------------------------------------------------------------------------

\* the longest text cut
MaxTextLen == 6

\* the largest segment size a call passes
MaxChunkSize == 4

\* the number of segments after which a call still looping is left alone
MaxChunks == 8

\* the texts: the character at offset k is written k, so that a segment tells
\* the offsets it was cut from; Texts[n] has n characters
TextOfLength(n) == [k \in 1..n |-> k - 1]

\* the sizes and the overlaps a call passes, overlaps of the size and more
\* included
ChunkSizes == 1..MaxChunkSize

Overlaps == 0..(MaxChunkSize + 1)

\* Math.min
Min(a, b) == IF a <= b THEN a ELSE b

\* an index of String.prototype.slice: a negative index counts from the end,
\* and the result is clamped to the text
SliceIndex(k, len) ==
    IF k < 0 THEN (IF len + k < 0 THEN 0 ELSE len + k) ELSE Min(k, len)

\* text.slice(start, end)
slice(text, start, end) ==
    LET from == SliceIndex(start, Len(text))
        to == SliceIndex(end, Len(text))
    IN IF from < to THEN SubSeq(text, from + 1, to) ELSE <<>>

\* the call: start at offset 0 with no segment
chunkText(text, chunkSize, overlap) ==
    /\ chunker.pc \in {"idle", "returned"}
    /\ chunker' = [pc |-> "loop", text |-> text, size |-> chunkSize,
                   overlap |-> overlap, start |-> 0, chunks |-> <<>>]
    /\ UNCHANGED <<engineVars, tableVars, cacheVars, elapsed, chat, doc, search,
                   inits, pdf>>

\* one turn of the loop: while start < text.length, push the slice and move
\* start by chunkSize - overlap
ChunkLoop ==
    /\ chunker.pc = "loop"
    /\ chunker.start < Len(chunker.text)
    /\ Len(chunker.chunks) < MaxChunks
    /\ LET end == Min(chunker.start + chunker.size, Len(chunker.text))
       IN chunker' = [chunker EXCEPT
                         !.chunks = Append(@, slice(chunker.text, chunker.start, end)),
                         !.start = @ + chunker.size - chunker.overlap]
    /\ UNCHANGED <<engineVars, tableVars, cacheVars, elapsed, chat, doc, search,
                   inits, pdf>>

\* the loop's condition fails: return chunks
ChunkReturns ==
    /\ chunker.pc = "loop"
    /\ ~(chunker.start < Len(chunker.text))
    /\ chunker' = [chunker EXCEPT !.pc = "returned"]
    /\ UNCHANGED <<engineVars, tableVars, cacheVars, elapsed, chat, doc, search,
                   inits, pdf>>

NextChunker ==
    \/ \E n \in 0..MaxTextLen, chunkSize \in ChunkSizes, overlap \in Overlaps :
           chunkText(TextOfLength(n), chunkSize, overlap)
    \/ ChunkLoop
    \/ ChunkReturns

\* Calls of chunkText, one after another, with every text, size and overlap.
SpecChunker == Init /\ [][NextChunker]_vars

\* the offsets of the text a segment holds
OffsetsOf(chunk) == { chunk[k] : k \in 1..Len(chunk) }

\* the number of characters two segments share
SharedBy(a, b) == Cardinality(OffsetsOf(a) \cap OffsetsOf(b))

\* the call was made with 0 <= overlap < size
ValidChunking == chunker.pc # "idle" /\ chunker.overlap < chunker.size

\* segment i (from 1) starts at offset (i - 1) * (size - overlap)
StartsAtMultiples ==
    \A i \in 1..Len(chunker.chunks) :
        /\ chunker.chunks[i] # <<>>
        /\ chunker.chunks[i][1] = (i - 1) * (chunker.size - chunker.overlap)

\* every character of the text is in a segment
CoversText ==
    UNION { OffsetsOf(chunker.chunks[i]) : i \in 1..Len(chunker.chunks) }
        = OffsetsOf(chunker.text)

\* C21: with 0 <= overlap < size the call ends (it makes no more segments
\* than the text has characters), segment i starts at offset i times
\* (size - overlap), the segments cover the text, and every two consecutive
\* segments share exactly overlap characters, except possibly the last two.
C21_SegmentsOverlapExactly ==
    ValidChunking =>
        /\ Len(chunker.chunks) <= Len(chunker.text)
        /\ StartsAtMultiples
        /\ chunker.pc = "returned" =>
              /\ CoversText
              /\ \A i \in 1..(Len(chunker.chunks) - 2) :
                     SharedBy(chunker.chunks[i], chunker.chunks[i + 1]) = chunker.overlap

\* C22: an empty text gives no segment; a call with overlap >= size is
\* rejected: it makes no segment and does not return any.
C22_OverlapNotBelowSizeRejected ==
    /\ (chunker.pc = "returned" /\ chunker.text = <<>>) => chunker.chunks = <<>>
    /\ (chunker.pc # "idle" /\ chunker.overlap >= chunker.size) =>
           (chunker.chunks = <<>> /\ chunker.pc # "returned")

\* ---------------------------------------------------------------------------
\* Single calls of the retriever and of the context assembler
\* (vectorSearch.ts: searchSimilarDocuments, getRAGContext)
\* ---------------------------------------------------------------------------

\* the longest embedding table a call is given
MaxRecords == 3

\* the largest topK / maxChunks a call passes
MaxTopK == 2

\* the similarity floor of getRAGContext, in percent
ContextMinSimilarityPct == 65

\* "No relevant legal documents found."
NoDocumentsMarker == "No relevant legal documents found."

\* the chunks behind the records of a table, by position
SearchChunks ==
    << [chunkId |-> "chunk_0", filename |-> "a.pdf", pageNumber |-> 1, text |-> "t0"],
       [chunkId |-> "chunk_1", filename |-> "a.pdf", pageNumber |-> 2, text |-> "t1"],
       [chunkId |-> "chunk_2", filename |-> "b.pdf", pageNumber |-> 1, text |-> "t2"],
       [chunkId |-> "chunk_3", filename |-> "b.pdf", pageNumber |-> 2, text |-> ""],
       [chunkId |-> "chunk_4", filename |-> "c.pdf", pageNumber |-> 1, text |-> "t4"],
       [chunkId |-> "chunk_5", filename |-> "c.pdf", pageNumber |-> 2, text |-> "t5"] >>

\* the stored vectors: two of one direction, two others, and the zero vector
SearchVectors == { <<1, 0>>, <<2, 0>>, <<1, 1>>, <<0, 1>>, <<0, 0>> }

\* the EmbeddingData record of position k with vector v
SearchRecord(k, v) ==
    [chunkId |-> SearchChunks[k].chunkId, filename |-> SearchChunks[k].filename,
     country |-> "switzerland", pageNumber |-> SearchChunks[k].pageNumber,
     text |-> SearchChunks[k].text, embedding |-> v]

\* the embedding tables a call is given
SearchTables ==
    UNION { { [k \in 1..n |-> SearchRecord(k, f[k])] : f \in [1..n -> SearchVectors] } :
            n \in 0..MaxRecords }

\* the similarity floors callers pass: 0.65 (report, context), 0.7 (default)
SearchFloors == {65, 70}

\* (similarity * 100).toFixed(1), in tenths of a percent, of a similarity
\* that is not negative: the t with t - 1/2 <= 1000 * dot / sqrt(nq * ne) < t + 1/2
SimilarityTenths(q, e) ==
    LET d == 2000 * Dot(q, e)
        n == NormSq(q) * NormSq(e)
    IN CHOOSE t \in 0..1000 :
           /\ (2 * t - 1 <= 0 \/ (2 * t - 1) * (2 * t - 1) * n <= d * d)
           /\ d * d < (2 * t + 1) * (2 * t + 1) * n

\* the block of result number index: its header and the chunk's text
ContextBlock(q, result, index) ==
    [document |-> index, filename |-> result.filename, page |-> result.pageNumber,
     similarity |-> SimilarityTenths(q, result.embedding), text |-> result.text]

\* a context that is empty when nothing is found
getRAGContext_EmptyWhenNone(q, embs, maxChunks) ==
    LET results == searchSimilarDocuments(q, embs, maxChunks, ContextMinSimilarityPct)
    IN [literal |-> "",
        blocks |-> [i \in 1..Len(results) |-> ContextBlock(q, results[i], i)]]

\* getRAGContext, given the query vector: the marker when the retriever
\* finds nothing, else the blocks of its results joined by blank lines
getRAGContext(q, embs, maxChunks) ==
    LET results == searchSimilarDocuments(q, embs, maxChunks, ContextMinSimilarityPct)
    IN IF Len(results) = 0
       THEN [literal |-> NoDocumentsMarker, blocks |-> <<>>]
       ELSE [literal |-> "",
             blocks |-> [i \in 1..Len(results) |-> ContextBlock(q, results[i], i)]]

\* a caller calls searchSimilarDocuments
callSearchSimilarDocuments(embs, topK, pct) ==
    /\ search.pc = "idle"
    /\ search' = [search EXCEPT !.pc = "embedding", !.fn = "search", !.records = embs,
                                !.topK = topK, !.pct = pct]
    /\ UNCHANGED <<engineVars, tableVars, cacheVars, elapsed, chat, doc, chunker,
                   inits, pdf>>

\* a caller calls getRAGContext
callGetRAGContext(embs, maxChunks) ==
    /\ search.pc = "idle"
    /\ search' = [search EXCEPT !.pc = "embedding", !.fn = "context", !.records = embs,
                                !.topK = maxChunks, !.pct = ContextMinSimilarityPct]
    /\ UNCHANGED <<engineVars, tableVars, cacheVars, elapsed, chat, doc, chunker,
                   inits, pdf>>

\* generateQueryEmbedding answers; an error, or a vector of another length
\* than a stored one, makes the call throw
QueryEmbeddingReturns(outcome) ==
    /\ search.pc = "embedding"
    /\ IF outcome[1] = "error" \/ SearchThrows(outcome[2], search.records)
       THEN search' = [search EXCEPT !.pc = "threw"]
       ELSE search' = [search EXCEPT
                !.pc = "returned",
                !.query = outcome[2],
                !.results = searchSimilarDocuments(outcome[2], search.records,
                                                   search.topK, search.pct),
                !.context = IF search.fn = "context"
                            THEN <<getRAGContext(outcome[2], search.records, search.topK)>>
                            ELSE <<>>]
    /\ UNCHANGED <<engineVars, tableVars, cacheVars, elapsed, chat, doc, chunker,
                   inits, pdf>>

\* what openai.embeddings.create answers for the query of a single call
QueryOutcomes ==
    { <<"error">>, <<"vector", <<1, 0>>>>, <<"vector", <<1, 1>>>>,
      <<"vector", <<1, 0, 0>>>> }

NextSearch ==
    \/ \E embs \in SearchTables, topK \in 1..MaxTopK, pct \in SearchFloors :
           callSearchSimilarDocuments(embs, topK, pct)
    \/ \E embs \in SearchTables, maxChunks \in 1..MaxTopK :
           callGetRAGContext(embs, maxChunks)
    \/ \E outcome \in QueryOutcomes : QueryEmbeddingReturns(outcome)

\* Single calls of the retriever and the context assembler, with every table.
SpecSearch == Init /\ [][NextSearch]_vars

\* the position of a result in the table searched
PositionOf(r) == CHOOSE k \in 1..Len(search.records) : search.records[k] = r

\* two records have the same similarity to the query
SameSimilarity(q, a, b) ==
    /\ ~SimilarityGreater(q, a.embedding, b.embedding)
    /\ ~SimilarityGreater(q, b.embedding, a.embedding)

\* the records of the table that are not in the results
LeftOut ==
    { k \in 1..Len(search.records) :
        \A i \in 1..Len(search.results) : search.results[i] # search.records[k] }

\* C23: searchSimilarDocuments returns at most topK records of the table,
\* each of similarity >= minSimilarity, sorted by similarity descending with
\* equal similarities in the table's order, and no record of the table that
\* passes the floor and is more similar than a returned one is left out.
C23_TopKRankedResults ==
    search.pc = "returned" =>
        LET q == search.query
            rs == search.results
        IN /\ Len(rs) <= search.topK
           /\ \A i \in 1..Len(rs) :
                  /\ \E k \in 1..Len(search.records) : search.records[k] = rs[i]
                  /\ SimilarityAtLeast(q, rs[i].embedding, search.pct)
           /\ \A i, j \in 1..Len(rs) :
                  i < j =>
                      /\ ~SimilarityGreater(q, rs[j].embedding, rs[i].embedding)
                      /\ SameSimilarity(q, rs[i], rs[j]) =>
                             PositionOf(rs[i]) < PositionOf(rs[j])
           /\ \A k \in LeftOut :
                  SimilarityAtLeast(q, search.records[k].embedding, search.pct) =>
                      \A i \in 1..Len(rs) :
                          ~SimilarityGreater(q, search.records[k].embedding,
                                             rs[i].embedding)

\* a call returned topK results, two of them of equal similarity, and left
\* out a record that passes the floor
C23_Witness ==
    /\ search.pc = "returned"
    /\ search.fn = "search"
    /\ Len(search.results) = search.topK
    /\ \E i, j \in 1..Len(search.results) :
           i < j /\ SameSimilarity(search.query, search.results[i], search.results[j])
    /\ \E k \in LeftOut :
           SimilarityAtLeast(search.query, search.records[k].embedding, search.pct)

\* some record of the table searched passes the floor of getRAGContext
SomeRecordPasses ==
    \E k \in 1..Len(search.records) :
        SimilarityAtLeast(search.query, search.records[k].embedding,
                          ContextMinSimilarityPct)

\* C28: getRAGContext returns the marker exactly when no record passes the
\* similarity floor, and never an empty context; otherwise it returns one
\* block per retrieved result, in rank order, at most maxChunks of them, each
\* with the result's filename, page estimate, similarity and text.
C28_MarkerOrBlocks ==
    (search.pc = "returned" /\ search.fn = "context") =>
        LET context == search.context[1]
            blocks == context.blocks
            rs == search.results
        IN /\ (context.literal = NoDocumentsMarker) <=> ~SomeRecordPasses
           /\ context.literal = NoDocumentsMarker \/ blocks # <<>>
           /\ context.literal = NoDocumentsMarker => blocks = <<>>
           /\ Len(blocks) = Len(rs)
           /\ Len(blocks) <= search.topK
           /\ \A i \in 1..Len(blocks) :
                  /\ blocks[i].document = i
                  /\ blocks[i].filename = rs[i].filename
                  /\ blocks[i].page = rs[i].pageNumber
                  /\ blocks[i].text = rs[i].text
                  /\ blocks[i].similarity \in (10 * ContextMinSimilarityPct)..1000
                  /\ \A j \in 1..Len(blocks) :
                         i < j => blocks[i].similarity >= blocks[j].similarity

\* a context of maxChunks blocks of different similarities was returned for a
\* table with more records that pass the floor
C28_Witness ==
    /\ search.pc = "returned"
    /\ search.fn = "context"
    /\ Len(search.context[1].blocks) = search.topK
    /\ search.topK > 1
    /\ search.context[1].blocks[1].similarity > search.context[1].blocks[2].similarity
    /\ \E k \in LeftOut :
           SimilarityAtLeast(search.query, search.records[k].embedding,
                             ContextMinSimilarityPct)

\* ---------------------------------------------------------------------------
\* Retrieval inside generateReport: scope and order
\* ---------------------------------------------------------------------------

\* String.prototype.toLowerCase, on the country names of the inputs
toLowerCase(s) == IF s = "Switzerland" THEN "switzerland" ELSE s

\* the chunk ids of the records of a table that carry the country's tag
TaggedWith(embs, country) ==
    { embs[k].chunkId : k \in { j \in 1..Len(embs) :
                                   toLowerCase(embs[j].country) = toLowerCase(country) } }

\* a category task whose retrieval has returned
Retrieved(t) ==
    /\ Len(t.calls) > 0
    /\ t.calls[1] = "embedding"
    /\ t.pc \in {"generating", "lookup", "fulfilled"}

\* C24: in generateReport, when the table has records tagged with the case's
\* host country, the evidence retrieved for a category holds records with
\* that tag only.
C24_RetrievalScopedToHostCountry ==
    \A s \in Slots :
        \A i \in 1..Len(req[s].tasks) :
            (Retrieved(req[s].tasks[i]) /\ req[s].entities[1].hostCountry # <<>>) =>
                LET tagged == TaggedWith(req[s].docs, req[s].entities[1].hostCountry[1])
                IN tagged # {} =>
                       \A k \in 1..Len(req[s].tasks[i].context) :
                           req[s].tasks[i].context[k] \in tagged

\* the records of a table whose chunk ids are not among ids
NotAmong(embs, ids) ==
    { k \in 1..Len(embs) : \A j \in 1..Len(ids) : ids[j] # embs[k].chunkId }

\* the record of a table with a chunk id
RecordOf(embs, id) == embs[CHOOSE k \in 1..Len(embs) : embs[k].chunkId = id]

\* ids are the chunk ids of the records of embs that rank highest for the
\* query vector q: at most ReportTopK, each above the floor, in descending
\* order of similarity, none more similar left out
IsRanking(q, ids, embs) ==
    /\ Len(ids) <= ReportTopK
    /\ \A j \in 1..Len(ids) :
           /\ \E k \in 1..Len(embs) : embs[k].chunkId = ids[j]
           /\ SimilarityAtLeast(q, RecordOf(embs, ids[j]).embedding, ReportMinSimilarityPct)
           /\ \A l \in 1..Len(ids) :
                  j < l => /\ ids[j] # ids[l]
                           /\ ~SimilarityGreater(q, RecordOf(embs, ids[l]).embedding,
                                                 RecordOf(embs, ids[j]).embedding)
    /\ \A k \in NotAmong(embs, ids) :
           SimilarityAtLeast(q, embs[k].embedding, ReportMinSimilarityPct) =>
               /\ Len(ids) = ReportTopK
               /\ \A j \in 1..Len(ids) :
                      ~SimilarityGreater(q, embs[k].embedding,
                                         RecordOf(embs, ids[j]).embedding)

\* C26: in a category's pipeline the generation call is issued only after
\* the category's retrieval has returned, or with retrieval skipped because
\* no documents are loaded, and the evidence of the prompt is exactly the
\* retrieval's ranked, thresholded results in rank order.
C26_RetrievalBeforeGeneration ==
    \A s \in Slots :
        \A i \in 1..Len(req[s].tasks) :
            LET t == req[s].tasks[i]
            IN /\ t.pc = "retrieving" => (t.calls = <<"embedding">> /\ t.context = <<>>)
               /\ \A k \in 1..Len(t.calls) :
                      t.calls[k] = "generation" =>
                          \/ k = 1 /\ req[s].docs = <<>> /\ t.context = <<>>
                          \/ /\ k = 2
                             /\ t.calls[1] = "embedding"
                             /\ t.pc # "retrieving"
                             /\ \E outcome \in EmbeddingOutcomes :
                                    /\ outcome[1] = "vector"
                                    /\ ~SearchThrows(outcome[2], req[s].docs)
                                    /\ IsRanking(outcome[2], t.context, req[s].docs)

\* a category's generation call was issued after its retrieval returned two
\* records, the later one of the table first
C26_Witness ==
    \E s \in Slots :
        \E i \in 1..Len(req[s].tasks) :
            /\ req[s].tasks[i].calls = <<"embedding", "generation">>
            /\ req[s].tasks[i].pc = "generating"
            /\ req[s].tasks[i].context = <<"chunk_2", "chunk_0">>

\* ---------------------------------------------------------------------------
\* Source extraction: processPDFs (pdfProcessor.ts)
\* ---------------------------------------------------------------------------

\* the largest number of PDF files under the document root
MaxFiles == 2

\* characters per chunk, and the overlap between chunks
CHUNK_SIZE == 1000

CHUNK_OVERLAP == 200

\* what the document root is: missing, a directory, or a file, on which
\* fs.readdirSync throws
Roots == {"missing", "directory", "file"}

\* the paths of the PDF files, relative to the root, by position
PdfPaths ==
    << <<"switzerland", "a.pdf">>, <<"b.pdf">>, <<"germany", "c.pdf">>, <<"d.pdf">> >>

\* what reading and parsing a file gives: fs.readFileSync throws, getText
\* throws, getText gives no text, a text of blanks only (trimmed: its length
\* after trim), or a text with a page count
Extractions ==
    { [outcome |-> "readThrows", length |-> 0, trimmed |-> 0, total |-> 0],
      [outcome |-> "getTextThrows", length |-> 0, trimmed |-> 0, total |-> 0],
      [outcome |-> "result", length |-> 0, trimmed |-> 0, total |-> 1],
      [outcome |-> "result", length |-> 5, trimmed |-> 0, total |-> 1],
      [outcome |-> "result", length |-> 900, trimmed |-> 900, total |-> 1],
      [outcome |-> "result", length |-> 2500, trimmed |-> 2498, total |-> 3],
      [outcome |-> "result", length |-> 2500, trimmed |-> 2500, total |-> 0] }

\* the files found under a root that is a directory
PdfFileLists ==
    UNION { { [k \in 1..n |-> [filepath |-> PdfPaths[k], extraction |-> f[k]]] :
              f \in [1..n -> Extractions] } : n \in 0..MaxFiles }

\* extractTextFromPDF: the text (its length, and its length after trim) and
\* the page count; whatever is thrown is caught and gives no text
extractTextFromPDF(file) ==
    IF file.extraction.outcome = "result"
    THEN [length |-> file.extraction.length, trimmed |-> file.extraction.trimmed,
          numPages |-> file.extraction.total]
    ELSE [length |-> 0, trimmed |-> 0, numPages |-> 0]

\* the segments chunkText cuts from a text of len characters, each given by
\* the offsets of its slice, for an overlap below the size
RECURSIVE ChunkRangesFrom(_, _, _, _)
ChunkRangesFrom(start, len, chunkSize, overlap) ==
    IF start < len
    THEN <<[from |-> start, to |-> Min(start + chunkSize, len)]>>
         \o ChunkRangesFrom(start + chunkSize - overlap, len, chunkSize, overlap)
    ELSE <<>>

\* Math.max(1, Math.ceil(charPosition / (text.length / numPages))); with
\* numPages 0 the divisor is Infinity and the quotient 0
estimatedPage(i, length, numPages) ==
    LET charPosition == i * (CHUNK_SIZE - CHUNK_OVERLAP)
        ceil == IF numPages = 0 THEN 0
                ELSE (charPosition * numPages + length - 1) \div length
    IN IF ceil < 1 THEN 1 ELSE ceil

\* the chunks pushed for a file with text, ids from the counter on
ChunksOfFile(file, extracted, counter) ==
    LET textChunks == ChunkRangesFrom(0, extracted.length, CHUNK_SIZE, CHUNK_OVERLAP)
        pathParts == file.filepath
    IN [i \in 1..Len(textChunks) |->
           [id |-> counter + i - 1,
            filename |-> pathParts[Len(pathParts)],
            filepath |-> file.filepath,
            country |-> IF Len(pathParts) > 1 THEN pathParts[1] ELSE "unknown",
            pageNumber |-> estimatedPage(i - 1, extracted.length, extracted.numPages),
            text |-> textChunks[i],
            chunkIndex |-> i - 1]]

\* the call, up to the loop over the files: findPDFFiles gives no file for a
\* missing root and throws for a root that is no directory
processPDFs(root, files) ==
    /\ pdf.pc = "idle"
    /\ pdf' = [pdf EXCEPT !.pc = IF root = "file" THEN "threw" ELSE "loop",
                          !.root = root,
                          !.pdfFiles = IF root = "directory" THEN files ELSE <<>>]
    /\ UNCHANGED <<engineVars, tableVars, cacheVars, elapsed, chat, doc, chunker,
                   search, inits>>

\* variant: an extraction that throws is not caught
ProcessFile_NoCatch ==
    /\ pdf.pc = "loop"
    /\ pdf.done < Len(pdf.pdfFiles)
    /\ LET file == pdf.pdfFiles[pdf.done + 1]
           extracted == extractTextFromPDF(file)
       IN IF file.extraction.outcome # "result"
          THEN pdf' = [pdf EXCEPT !.pc = "threw"]
          ELSE IF extracted.length = 0 \/ extracted.trimmed = 0
          THEN pdf' = [pdf EXCEPT !.done = @ + 1]
          ELSE LET chunks == ChunksOfFile(file, extracted, pdf.chunkIdCounter)
               IN pdf' = [pdf EXCEPT !.done = @ + 1,
                                     !.chunkIdCounter = @ + Len(chunks),
                                     !.allChunks = @ \o chunks]
    /\ UNCHANGED <<engineVars, tableVars, cacheVars, elapsed, chat, doc, chunker,
                   search, inits>>

\* one turn of the loop over the files: extract, skip the file when there is
\* no text or blanks only, else chunk it
ProcessFile ==
    /\ pdf.pc = "loop"
    /\ pdf.done < Len(pdf.pdfFiles)
    /\ LET file == pdf.pdfFiles[pdf.done + 1]
           extracted == extractTextFromPDF(file)
       IN IF extracted.length = 0 \/ extracted.trimmed = 0
          THEN pdf' = [pdf EXCEPT !.done = @ + 1]
          ELSE LET chunks == ChunksOfFile(file, extracted, pdf.chunkIdCounter)
               IN pdf' = [pdf EXCEPT !.done = @ + 1,
                                     !.chunkIdCounter = @ + Len(chunks),
                                     !.allChunks = @ \o chunks]
    /\ UNCHANGED <<engineVars, tableVars, cacheVars, elapsed, chat, doc, chunker,
                   search, inits>>

\* the loop is over: return allChunks
ProcessReturns ==
    /\ pdf.pc = "loop"
    /\ pdf.done = Len(pdf.pdfFiles)
    /\ pdf' = [pdf EXCEPT !.pc = "returned"]
    /\ UNCHANGED <<engineVars, tableVars, cacheVars, elapsed, chat, doc, chunker,
                   search, inits>>

NextExtraction ==
    \/ \E root \in Roots, files \in PdfFileLists : processPDFs(root, files)
    \/ ProcessFile
    \/ ProcessReturns

\* One call of processPDFs, with every root and every list of files.
SpecExtraction == Init /\ [][NextExtraction]_vars

\* the chunks of allChunks cut from a file
ChunksFrom(file) ==
    { k \in 1..Len(pdf.allChunks) : pdf.allChunks[k].filepath = file.filepath }

\* a file whose extraction throws, or gives no text or blanks only
Unreadable(file) ==
    \/ file.extraction.outcome # "result"
    \/ file.extraction.trimmed = 0

\* the number of segments of a text of len characters: the offsets
\* i * (CHUNK_SIZE - CHUNK_OVERLAP) that lie in the text
SegmentCount(len) ==
    Cardinality({ i \in 0..len : i * (CHUNK_SIZE - CHUNK_OVERLAP) < len })

\* C27: source extraction never fails the whole run: a file whose extraction
\* throws or yields only whitespace contributes no chunk, every other file
\* is chunked, and a document root that does not exist yields an empty chunk
\* list, not an error.
C27_ExtractionNeverFailsRun ==
    /\ pdf.root \in {"missing", "directory"} => pdf.pc # "threw"
    /\ pdf.root = "missing" => pdf.allChunks = <<>>
    /\ \A k \in 1..pdf.done :
           IF Unreadable(pdf.pdfFiles[k])
           THEN ChunksFrom(pdf.pdfFiles[k]) = {}
           ELSE Cardinality(ChunksFrom(pdf.pdfFiles[k]))
                    = SegmentCount(pdf.pdfFiles[k].extraction.length)
    /\ \A k \in 1..Len(pdf.allChunks) : pdf.allChunks[k].id = k - 1

\* a run returned chunks of a file that came after a file whose extraction
\* threw
C27_Witness ==
    /\ pdf.pc = "returned"
    /\ Len(pdf.pdfFiles) = 2
    /\ pdf.pdfFiles[1].extraction.outcome = "getTextThrows"
    /\ pdf.pdfFiles[2].extraction.length = 2500
    /\ Cardinality(ChunksFrom(pdf.pdfFiles[2])) = 4

\* ---------------------------------------------------------------------------
\* Overlapping calls of initializeDocumentSystem (initService.ts)
\* ---------------------------------------------------------------------------

\* the call, up to its await of processPDFs: it returns at once when
\* isInitialized is set
callInitializeDocumentSystem(a) ==
    /\ inits[a].pc = "idle"
    /\ inits' = [inits EXCEPT ![a] =
                    [IdleRun EXCEPT !.pc = IF isInitialized THEN "returned"
                                                            ELSE "processing"]]
    /\ UNCHANGED <<engineVars, tableVars, cacheVars, elapsed, chat, doc, chunker,
                   search, pdf>>

\* processPDFs returns: pdfChunks is assigned and initializeEmbeddings runs
\* up to its first await: the cache is loaded, or there are no chunks, or
\* generateEmbeddings requests the first batch
ProcessingReturns(a) ==
    /\ inits[a].pc = "processing"
    /\ LET chunks == Snapshots[corpus]
           cached == loadEmbeddingsCache(cacheFile, chunks)
       IN /\ pdfChunks' = chunks
          /\ IF cached.threw
             THEN /\ inits' = [inits EXCEPT ![a].pc = "failed", ![a].snapshot = corpus]
                  /\ UNCHANGED sent
             ELSE IF cached.value # <<>> /\ Len(cached.value[1]) > 0
             THEN /\ inits' = [inits EXCEPT ![a].pc = "assigning",
                                            ![a].snapshot = corpus,
                                            ![a].list = cached.value[1],
                                            ![a].source = "cache"]
                  /\ UNCHANGED sent
             ELSE IF Len(chunks) = 0
             THEN /\ inits' = [inits EXCEPT ![a].pc = "assigning",
                                            ![a].snapshot = corpus,
                                            ![a].source = "empty"]
                  /\ UNCHANGED sent
             ELSE /\ inits' = [inits EXCEPT ![a].pc = "generating",
                                            ![a].snapshot = corpus,
                                            ![a].source = "generated"]
                  /\ sent' = Append(sent, BatchRequest(corpus, chunks, 0))
    /\ UNCHANGED <<corpus, cacheFile, stream, run, saved, restarts, tableVars>>
    /\ UNCHANGED <<engineVars, elapsed, chat, doc, chunker, search, pdf>>

\* generateEmbeddings of a call resumes with the answer for its batch; after
\* the last batch the list is returned and saveEmbeddingsCache called
OverlapBatchReturns(a, ok) ==
    /\ inits[a].pc = "generating"
    /\ LET r == inits[a]
           chunks == Snapshots[r.snapshot]
           batch == Batch(chunks, r.i)
           list == IF ok THEN r.list \o [j \in 1..Len(batch) |-> EmbeddingData(batch[j])]
                         ELSE r.list
           next == r.i + BatchSize
       IN IF next < Len(chunks)
          THEN /\ inits' = [inits EXCEPT ![a].i = next, ![a].list = list,
                                         ![a].outcomes = Append(@, ok)]
               /\ sent' = Append(sent, BatchRequest(r.snapshot, chunks, next))
               /\ UNCHANGED <<stream, saved>>
          ELSE /\ inits' = [inits EXCEPT ![a].pc = "assigning", ![a].list = list,
                                         ![a].outcomes = Append(@, ok)]
               /\ stream' = WriteStream(list)
               /\ saved' = <<[snapshot |-> r.snapshot, embeddings |-> list]>>
               /\ UNCHANGED sent
    /\ UNCHANGED <<corpus, cacheFile, run, pdfChunks, restarts, tableVars>>
    /\ UNCHANGED <<engineVars, elapsed, chat, doc, chunker, search, pdf>>

\* the call resumes behind its await of initializeEmbeddings: embeddings is
\* assigned and isInitialized set
InitializationCompletes(a) ==
    /\ inits[a].pc = "assigning"
    /\ embeddings' = inits[a].list
    /\ isInitialized' = TRUE
    /\ inits' = [inits EXCEPT ![a].pc = "done"]
    /\ UNCHANGED <<engineVars, cacheVars, elapsed, chat, doc, chunker, search, pdf>>

NextOverlap ==
    \/ \E a \in Activations : callInitializeDocumentSystem(a)
    \/ \E a \in Activations : ProcessingReturns(a)
    \/ \E a \in Activations, ok \in BOOLEAN : OverlapBatchReturns(a, ok)
    \/ \E a \in Activations : InitializationCompletes(a)
    \/ ChangeCorpus

\* Calls of initializeDocumentSystem in one process, one after another or
\* overlapping, while the documents may change; the cache file is written
\* behind the calls.
SpecOverlap == Init /\ [][NextOverlap]_vars

\* C25: once isInitialized is true it stays true, and the tables that
\* getEmbeddings and getPDFChunks return never change again, whatever calls
\* of initializeDocumentSystem follow or overlap.
C25_TablesReadOnlyAfterInit ==
    [][isInitialized =>
          /\ isInitialized'
          /\ embeddings' = embeddings
          /\ pdfChunks' = pdfChunks]_vars

\* C29: every chat request the handler is through with has terminated its
\* response: with an error status and nothing streamed, or with every
\* content token of the generation written in order, followed by exactly one
\* done event, and the response closed; a failure of the generation stream
\* after streaming began leaves no response open.
C29_ResponseAlwaysTerminated ==
    \A c \in ChatSlots :
        chat[c].pc = "done" =>
            /\ chat[c].ended
            /\ \/ chat[c].status \in {400, 500} /\ chat[c].written = <<>>
               \/ /\ chat[c].status = 200
                  /\ chat[c].written = Contents(chat[c].source) \o <<"done">>
====
